---------------------------- MODULE Spec2Model ----------------------------
(***************************************************************************)
(* AquaNova membrane-train simulator: the orchestrator                     *)
(* (app/services/simulation/engine.py) and its module solvers              *)
(* (modules/ro.py, nf.py, uf.py, mf.py, hrro.py).                          *)
(*                                                                         *)
(* The code computes in floating point.  The model computes the same       *)
(* formulas in fixed point:                                                *)
(*    flow            L/h        (1 m3/h   = 1000)                         *)
(*    concentration   mg/L                                                 *)
(*    pressure        mbar       (1 bar    = 1000)                         *)
(*    flux            mLMH       (1 LMH    = 1000)                         *)
(*    permeability A  mLMH/bar   (1 LMH/bar = 1000)                        *)
(*    area            m2                                                   *)
(*    percentages     whole percent (salt rejections in 1/100 percent),    *)
(*                    factors in 1/1000                                    *)
(* An absent optional value (Python None) is the integer None.             *)
(***************************************************************************)
EXTENDS Integers, Sequences, FiniteSets, TLC

None == -1

\* F applied to the value of v, computed once and before F's body: a local
\* variable of the source
With(v, F(_)) == CHOOSE r \in {F(x) : x \in {v}} : TRUE

Max(a, b) == IF a >= b THEN a ELSE b

Min(a, b) == IF a <= b THEN a ELSE b

Abs(a) == IF a >= 0 THEN a ELSE 0 - a

\* floor(a * b / d) for a, b >= 0 and d > 0, without forming a * b
MulDiv(a, b, d) == (a \div d) * b + ((a % d) * b) \div d

_clamp(x, lo, hi) == Max(lo, Min(x, hi))

\* max(0, qf * cf - qp * cp) / qc, exactly, without forming the products
SaltBalance(qf, cf, qp, cp, qc) ==
    Max(0, (qf \div qc) * cf - (qp \div qc) * cp
           + ((qf % qc) * cf - (qp % qc) * cp) \div qc)

\* _f(v, default): a missing value becomes the default
_f(v, default) == IF v = None THEN default ELSE v

(***************************************************************************)
(* math.exp and math.log on arguments in 1/1000, results in 1/1000.  The   *)
(* exponential of x = k + j/10 + r is the product of e^k, e^(j/10) (in     *)
(* 1/10000) and the series of e^r (in 1/10000), rounded; arguments above   *)
(* ExpArgCap saturate (no caller gets there: the results are clamped to at *)
(* most 5, or the exponent is capped at 5).                                *)
(***************************************************************************)
ExpArgCap == 12000

ExpWhole == <<1000, 2718, 7389, 20086, 54598, 148413, 403429, 1096633,
              2980958, 8103084, 22026466, 59874142, 162754791>>

ExpTenth == <<10000, 11052, 12214, 13499, 14918, 16487, 18221, 20138, 22255,
              24596>>

ExpSmall(r) == 10000 + 10 * r + (r * r + 100) \div 200
               + (r * r * r) \div 600000

ExpPos(x) ==
    (MulDiv(ExpWhole[Min(x \div 1000, 12) + 1],
            (ExpTenth[(x % 1000) \div 100 + 1] * ExpSmall(x % 100) + 5000)
              \div 10000, 1000) + 5) \div 10

math_exp(x) ==
    IF x >= 0 THEN ExpPos(Min(x, ExpArgCap))
    ELSE 1000000 \div ExpPos(Min(0 - x, ExpArgCap))

\* 2 * atanh((x - 1) / (x + 1)) on [0.5, 2], halving or doubling outside
RECURSIVE math_log(_)
math_log(x) ==
    IF x > 2000 THEN 693 + math_log((x + 1) \div 2)
    ELSE IF x < 500 THEN math_log(2 * Max(1, x)) - 693
    ELSE LET neg == x < 1000
             z == (Abs(x - 1000) * 100000) \div (x + 1000)
             z2 == (z * z) \div 100000
             t3 == (z * z2) \div 100000
             t5 == (t3 * z2) \div 100000
             t7 == (t5 * z2) \div 100000
             v == (2 * (z + t3 \div 3 + t5 \div 5 + t7 \div 7) + 50) \div 100
         IN IF neg THEN 0 - v ELSE v

\* x ** a for x > 0, all in 1/1000
Pow(x, a) == IF a = 0 THEN 1000
             ELSE LET e == a * math_log(x)
                  IN math_exp(IF e >= 0 THEN e \div 1000
                              ELSE 0 - ((0 - e) \div 1000))

_safe_exp(x) == math_exp(_clamp(x, 0 - 80000, 80000))

(***************************************************************************)
(* Inputs (schemas/simulation.py).  StageConfigDefault is a stage as the   *)
(* schema builds it from {"module_type": mt}: every field at its default   *)
(* and elements derived by the after-validator as                          *)
(* vessel_count * elements_per_vessel.  Rejections are in 1/100 percent.   *)
(***************************************************************************)
ModuleType == {"RO", "HRRO", "NF", "MF", "UF"}

StageConfigDefault(mt) ==
    [module_type |-> mt, elements |-> 6, pressure_bar |-> None,
     dp_module_bar |-> 200, recovery_target_pct |-> None, flux_lmh |-> None,
     membrane_area_m2 |-> 37, membrane_A_lmh_bar |-> None,
     membrane_B_lmh |-> None, membrane_salt_rejection_pct |-> None,
     recirc_flow_m3h |-> 12000, stop_recovery_pct |-> None,
     filtration_cycle_min |-> 30, backwash_duration_sec |-> 60,
     backwash_flux_lmh |-> None, hrro_engine |-> "excel_only",
     hrro_excel_only_cp_mode |-> "min_model",
     hrro_excel_only_fixed_rejection_pct |-> 9950,
     hrro_excel_only_min_model_rejection_pct |-> None,
     element_inch |-> 8, vessel_count |-> 1, elements_per_vessel |-> 6,
     feed_flow_m3h |-> None, ccro_recovery_pct |-> None,
     cc_recycle_m3h_per_pv |-> None,
     membrane_area_m2_per_element |-> IF mt = "HRRO" THEN 37 ELSE None,
     hrro_pressure_limit_bar |-> None, hrro_elem_length_m |-> 1000,
     hrro_spacer_friction_multiplier |-> 5000, hrro_A_mu_exp |-> 700,
     hrro_B_mu_exp |-> 300, hrro_B_sal_slope |-> 250,
     hrro_A_compaction_k |-> 3, hrro_num_segments |-> 1,
     hrro_k_mt_multiplier |-> 500, hrro_k_mt_min_m_s |-> 0,
     pump_eff |-> 800, timestep_s |-> 5, max_minutes |-> 60,
     mass_transfer |-> [cp_exp_max |-> 5000, cp_rel_tol_ppm |-> 100,
                        cp_abs_tol_lmh |-> 1, cp_relax |-> 500,
                        cp_max_iter |-> 30]]

FeedInput(flow, tds, temp, ph, pressure, wt, sub, sdi, turb, toc) ==
    [flow_m3h |-> flow, tds_mgL |-> tds, temperature_C |-> temp, ph |-> ph,
     pressure_bar |-> pressure, water_type |-> wt, water_subtype |-> sub,
     sdi15 |-> sdi, turbidity_ntu |-> turb, toc_mgL |-> toc]

(***************************************************************************)
(* Stage results (schemas/simulation.py StageMetric) and the stream nodes  *)
(* a module publishes under chemistry["streams"].                          *)
(***************************************************************************)
Stream(flow, tds) == [flow_m3h |-> flow, tds_mgL |-> tds]

Streams(Qf, Cf, Qp, Cp, Qc, Cc) ==
    [feed |-> Stream(Qf, Cf), permeate |-> Stream(Qp, Cp),
     concentrate |-> Stream(Qc, Cc)]

NoStreams == Streams(None, None, None, None, None, None)

StageMetric(mt, Qf, Qp, Qc, Cf, Cp, Cc, flux, ndp, p_in, streams, viol) ==
    [stage |-> 0, module_type |-> mt, Qf |-> Qf, Qp |-> Qp, Qc |-> Qc,
     Cf |-> Cf, Cp |-> Cp, Cc |-> Cc, flux_lmh |-> flux, ndp_bar |-> ndp,
     p_in_bar |-> p_in, streams |-> streams, violations |-> viol]

(***************************************************************************)
(* modules/ro.py                                                           *)
(***************************************************************************)
\* (temp_c + 273.15) / 298.15 in 1/1000
TempRatio(temp_c) == ((27315 + 100 * temp_c) * 1000) \div 29815

\* c_gL * 0.75 * (t_k / 298.15), mg/L -> mbar
_osmotic_pressure_bar(conc_mgL, temp_c) ==
    MulDiv((Max(0, conc_mgL) * 3) \div 4, TempRatio(temp_c), 1000)

RO_flow_factor == 850

RO_max_iter == 20

RO_tol_rel_pct == 1

RO_min_conc_pct == 5

RO_cp_scale == 150

RO_cp_max == 5000

\* resolution of the inputs of ROModule.compute (sections 1 to 3)
RO_inputs(config, feed) ==
    LET elements == Max(1, _f(config.elements, 1))
        area_per_element == _f(config.membrane_area_m2, 40)
        A_base == Max(0, _f(config.membrane_A_lmh_bar, 3000))
        B_base == Max(0, _f(config.membrane_B_lmh, 100))
        feed_p_bar == Max(0, _f(feed.pressure_bar, 0))
    IN
    With(IF config.pressure_bar # None /\ config.pressure_bar > 0
         THEN config.pressure_bar
         ELSE feed_p_bar, LAMBDA p_in_bar :
    LET dp_module == Max(0, _f(config.dp_module_bar, 200))
    IN
    With(elements * dp_module, LAMBDA dp_total :
    [Qf |-> feed.flow_m3h, Cf |-> feed.tds_mgL, T_C |-> feed.temperature_C,
        total_area |-> Max(1, elements * Max(1, area_per_element)),
        A |-> (A_base * RO_flow_factor) \div 1000,
        B_lmh |-> B_base,
        p_in_bar |-> p_in_bar,
        p_out_bar |-> Max(0, p_in_bar - dp_total),
        deltaP_bar |-> Max(0, p_in_bar - dp_total \div 2)]))

\* one evaluation of the RO transport equations at a bulk average
\* concentration: the body of the fixed-point loop and the final recompute
RO_pass(k, avg_conc_mgL) ==
    LET pi_bulk_bar == _osmotic_pressure_bar(avg_conc_mgL, k.T_C)
        ndp_prov == Max(0, k.deltaP_bar - pi_bulk_bar)
    IN
    With(MulDiv(ndp_prov, k.A, 1000), LAMBDA flux_prov :
    With(_clamp(IF flux_prov > 0
                THEN _safe_exp(flux_prov \div RO_cp_scale)
                ELSE 1000, 1000, RO_cp_max), LAMBDA cp_factor :
    LET cm_mgL == Max(0, MulDiv(avg_conc_mgL, cp_factor, 1000))
        pi_cm_bar == _osmotic_pressure_bar(cm_mgL, k.T_C)
    IN
    With(Max(0, k.deltaP_bar - pi_cm_bar), LAMBDA ndp_bar :
    With(MulDiv(ndp_bar, k.A, 1000), LAMBDA flux0 :
    With(IF flux0 + k.B_lmh > 0
         THEN MulDiv(cm_mgL, k.B_lmh, flux0 + k.B_lmh) ELSE 0, LAMBDA Cp0 :
    With(IF k.Cf > 0 THEN Min(Max(0, Cp0), k.Cf) ELSE Max(0, Cp0),
         LAMBDA Cp_mgL :
    LET qp0 == MulDiv(flux0, k.total_area, 1000)
        qp_cap == MulDiv(k.Qf, 100 - RO_min_conc_pct, 100)
    IN
    With(qp0 > qp_cap, LAMBDA capped :
    With(IF capped THEN qp_cap ELSE qp0, LAMBDA qp_m3h :
    LET flux_lmh == IF capped THEN MulDiv(qp_m3h, 1000, k.total_area)
                    ELSE flux0
    \* qp <= 0.95 Qf, so the 1e-12 floor of qc only acts on a zero feed,
    \* where the salt balance is 0 / 1e-12 = 0
        qc_m3h == Max(0, k.Qf - qp_m3h)
    IN
    With(IF qc_m3h = 0 THEN 0
         ELSE SaltBalance(k.Qf, k.Cf, qp_m3h, Cp_mgL, qc_m3h), LAMBDA Cc_mgL :
    [flux_lmh |-> flux_lmh, ndp_bar |-> ndp_bar, cp_factor |-> cp_factor,
        Cp |-> Cp_mgL, Qp |-> qp_m3h, Qc |-> qc_m3h, Cc |-> Cc_mgL,
        capped |-> capped, new_avg |-> (k.Cf + Cc_mgL) \div 2])))))))))

\* one trip of the fixed-point loop on its state (the bulk average and
\* whether the loop has left through its break); a finished loop stays put
RO_step(k, s) ==
    IF s.done THEN s
    ELSE With(RO_pass(k, s.avg).new_avg, LAMBDA new_avg :
         [avg |-> new_avg,
          done |-> IF s.avg = 0 THEN new_avg = 0
                   ELSE Abs(new_avg - s.avg) * 100 < RO_tol_rel_pct * s.avg])

\* n trips of the loop, split in halves
RECURSIVE RO_iterate(_, _, _)
RO_iterate(k, s, n) ==
    IF n <= 1 THEN (IF n = 1 THEN RO_step(k, s) ELSE s)
    ELSE With(RO_iterate(k, s, n \div 2), LAMBDA h :
         IF h.done THEN h
         ELSE RO_iterate(k, h, n - n \div 2))

ROModule_compute(config, feed) ==
    With(RO_inputs(config, feed), LAMBDA k :
    IF k.Qf <= 0 \/ k.A <= 0
       THEN StageMetric("RO", k.Qf, 0, k.Qf, k.Cf, 0, k.Cf, 0, 0, k.p_in_bar,
                        Streams(k.Qf, k.Cf, 0, 0, k.Qf, k.Cf), {})
       ELSE With(RO_pass(k, RO_iterate(k, [avg |-> Max(0, (k.Cf * 12) \div 10),
                                           done |-> FALSE],
                                       RO_max_iter).avg), LAMBDA r :
            StageMetric("RO", k.Qf, r.Qp, r.Qc, k.Cf, r.Cp, r.Cc,
                        r.flux_lmh, r.ndp_bar, k.p_in_bar,
                        Streams(k.Qf, k.Cf, r.Qp, r.Cp, r.Qc, r.Cc), {})))

\* whether the fixed-point loop leaves through its break (line 218) within
\* its trips
RO_loop_converged(config, feed) ==
    With(RO_inputs(config, feed), LAMBDA k :
    k.Qf > 0 /\ k.A > 0
    /\ RO_iterate(k, [avg |-> Max(0, (k.Cf * 12) \div 10), done |-> FALSE],
                  RO_max_iter).done)

\* the final recompute at the bulk average the loop ended on, and the
\* metric returned: ro.py lines 221 to 258 and 323 to 340
RO_result(k, avg_conc_mgL) ==
    With(RO_pass(k, avg_conc_mgL), LAMBDA r :
    StageMetric("RO", k.Qf, r.Qp, r.Qc, k.Cf, r.Cp, r.Cc, r.flux_lmh,
                   r.ndp_bar, k.p_in_bar,
                   Streams(k.Qf, k.Cf, r.Qp, r.Cp, r.Qc, r.Cc), {}))

\* the efficiency of the inter-stage booster pump, 1/1000 (isbp_eff_pct is
\* no field of StageConfig, so its getattr default applies)
RO_isbp_eff == 800

\* feed pressure in mbar from which the booster efficiency is used
RO_isbp_feed_p == 5000

\* section 6 of ROModule.compute: power in W and specific energy in Wh/m3
\* for a permeate flow qp
RO_energy(config, feed, k, qp_m3h) ==
    LET feed_p_bar == Max(0, _f(feed.pressure_bar, 0))
        boost_added == Max(0, k.p_in_bar - feed_p_bar)
        pump_eff == _clamp(_f(config.pump_eff, 800), 200, 950)
        isbp_eff == _clamp(RO_isbp_eff, 200, 950)
        eff_used == IF feed_p_bar < RO_isbp_feed_p THEN pump_eff
                    ELSE isbp_eff
    IN
    With(IF k.Qf > 0 /\ boost_added > 0
         THEN MulDiv(k.Qf, boost_added, 36 * eff_used) ELSE 0,
         LAMBDA power_kw :
    [power_kw |-> power_kw,
        sec_kwhm3 |-> IF qp_m3h > 0 THEN MulDiv(power_kw, 1000, qp_m3h)
                      ELSE 0])

(***************************************************************************)
(* modules/nf.py                                                           *)
(***************************************************************************)
NF_max_iter == 10

NF_ndp_floor == 100

NF_cp_scale == 150

NF_cap_pct == 95

NF_inputs(config, feed) ==
    LET elements == Max(1, _f(config.elements, 1))
        area_per_element == _f(config.membrane_area_m2, 37)
        p_in_bar == _f(config.pressure_bar, 5000)
        dp_total == elements * Max(0, _f(config.dp_module_bar, 200))
    IN
    [Qf |-> feed.flow_m3h, Cf |-> feed.tds_mgL, T_C |-> feed.temperature_C,
        total_area |-> Max(1, elements * Max(1, area_per_element)),
        A_lmh_bar |-> _f(config.membrane_A_lmh_bar, 7000),
        rejection_rate |-> _clamp(_f(config.membrane_salt_rejection_pct, 9000),
                                  0, 9990),
        p_in_bar |-> p_in_bar,
        avg_pressure |-> Max(0, p_in_bar - dp_total \div 2)]

\* one pass of the NF loop body at a bulk average concentration
NF_pass(k, avg_conc) ==
    LET pi_bulk == MulDiv((avg_conc * 3) \div 4, TempRatio(k.T_C), 1000)
        pi_effective == MulDiv(pi_bulk, k.rejection_rate, 10000)
    IN
    With(Max(NF_ndp_floor, k.avg_pressure - pi_effective), LAMBDA ndp :
    With(MulDiv(ndp, k.A_lmh_bar, 1000), LAMBDA flux0 :
    With(IF flux0 > 0 THEN math_exp(flux0 \div NF_cp_scale)
         ELSE 1000, LAMBDA cp_factor :
    LET cm == MulDiv(avg_conc, cp_factor, 1000)
    IN
    With(Max(0, MulDiv(cm, 10000 - k.rejection_rate, 10000)),
         LAMBDA permeate_tds :
    LET qp0 == MulDiv(flux0, k.total_area, 1000)
        qp_cap == MulDiv(k.Qf, NF_cap_pct, 100)
    IN
    With(k.Qf > 0 /\ qp0 > qp_cap, LAMBDA capped :
    With(IF capped THEN qp_cap ELSE qp0, LAMBDA qp_m3h :
    LET flux_lmh == IF capped THEN MulDiv(qp_m3h, 1000, k.total_area)
                    ELSE flux0
    \* qc = max(1e-12, Qf - qp): only a zero feed has a vanishing qc, and
    \* its salt balance is 0 / 1e-12 = 0
    IN
    With(IF k.Qf - qp_m3h > 0
         THEN SaltBalance(k.Qf, k.Cf, qp_m3h, permeate_tds,
                          k.Qf - qp_m3h)
         ELSE 0, LAMBDA concentrate_tds :
    [flux_lmh |-> flux_lmh, ndp |-> ndp, cp_factor |-> cp_factor,
        Cp |-> permeate_tds, Qp |-> qp_m3h, Cc |-> concentrate_tds,
        capped |-> capped, new_avg |-> (k.Cf + concentrate_tds) \div 2])))))))

\* one trip of the NF loop on its state (the bulk average, the values the
\* trip leaves behind and whether the loop has left through its break); a
\* finished loop stays put
NF_step(k, s) ==
    IF s.done THEN s
    ELSE With(NF_pass(k, s.avg), LAMBDA r :
         [avg |-> r.new_avg, r |-> r,
          done |-> s.avg > 0 /\ Abs(r.new_avg - s.avg) * 100 < s.avg])

\* n trips of the loop, split in halves
RECURSIVE NF_iterate(_, _, _)
NF_iterate(k, s, n) ==
    IF n <= 1 THEN (IF n = 1 THEN NF_step(k, s) ELSE s)
    ELSE With(NF_iterate(k, s, n \div 2), LAMBDA h :
         IF h.done THEN h
         ELSE NF_iterate(k, h, n - n \div 2))

\* lines 100-103 recompute qp from the flux the last pass left, which gives
\* the last pass's qp again
NFModule_compute(config, feed) ==
    With(NF_inputs(config, feed), LAMBDA k :
    With(NF_iterate(k, [avg |-> Max(0, (k.Cf * 11) \div 10), r |-> None,
                        done |-> FALSE], NF_max_iter).r, LAMBDA r :
    LET qc_m3h == Max(0, k.Qf - r.Qp)
    IN
    StageMetric("NF", k.Qf, r.Qp, qc_m3h, k.Cf, r.Cp, r.Cc, r.flux_lmh,
                   r.ndp, k.p_in_bar,
                   Streams(k.Qf, k.Cf, r.Qp, r.Cp, qc_m3h, r.Cc), {})))

\* the metric returned from the values the last pass left: nf.py lines 100
\* to 152
NF_result(k, r) ==
    LET qc_m3h == Max(0, k.Qf - r.Qp)
    IN
    StageMetric("NF", k.Qf, r.Qp, qc_m3h, k.Cf, r.Cp, r.Cc, r.flux_lmh,
                   r.ndp, k.p_in_bar,
                   Streams(k.Qf, k.Cf, r.Qp, r.Cp, qc_m3h, r.Cc), {})

\* nf.py lines 108 to 114: power in W and specific energy in Wh/m3
NF_energy(config, k, qp_m3h) ==
    LET pump_eff == _clamp(_f(config.pump_eff, 800), 200, 950)
    IN
    With(IF k.Qf > 0 /\ k.p_in_bar > 0
         THEN MulDiv(k.Qf, k.p_in_bar, 36 * pump_eff) ELSE 0,
         LAMBDA power_kw :
    [power_kw |-> power_kw,
        sec_kwhm3 |-> IF qp_m3h > 0 THEN MulDiv(power_kw, 1000, qp_m3h)
                      ELSE 0])

(***************************************************************************)
(* modules/uf.py.  uf_maintenance, design_flux_lmh and                     *)
(* strainer_recovery_pct are no fields of StageConfig, so their getattr    *)
(* defaults always apply; durations are in seconds.                        *)
(***************************************************************************)
UF_t_filt_sec == 3600

UF_t_bw_sec == 60

UF_t_air_sec == 30

UF_t_ff_sec == 30

UF_bw_flux == 100000

UF_ff_flow_mod == 2830

UF_strainer_loss_permille == 5

UF_Lp_20 == 250

\* 10 ** y for y in 1/100000 with 1 <= y < 1.87, result in 1/1000
Pow10(y_e5) == 10 * math_exp(((y_e5 - 100000) * 23026) \div 1000000)

\* clamp(mu_20 / mu_t), mu_t = 1.234 * 10 ** (247.8 / (T + 133.15) - 1.2)
UF_temp_corr_factor(temp_c) ==
    LET y_e5 == MulDiv(24780000, 100, 100 * temp_c + 13315)
        mu_t == MulDiv(1234, math_exp(((y_e5 - 120000) * 23026) \div 1000000),
                       1000)
    IN
    _clamp(MulDiv(1002, 1000, Max(1, mu_t)), 250, 4000)

UFModule_compute(config, feed) ==
    LET cf_tds == feed.tds_mgL
        feed_flow == feed.flow_m3h
        elements == Max(1, _f(config.elements, 1))
        area_per_el == _f(config.membrane_area_m2_per_element, 77)
    IN
    With(IF config.membrane_area_m2 # None
            /\ config.membrane_area_m2 # 0
         THEN config.membrane_area_m2
         ELSE Max(1, elements * area_per_el), LAMBDA total_area :
    LET strainer_loss_m3h == MulDiv(feed_flow, UF_strainer_loss_permille, 1000)
        uf_feed_in_m3h == feed_flow - strainer_loss_m3h
        cycle_total == UF_t_filt_sec + UF_t_bw_sec + UF_t_air_sec + UF_t_ff_sec
    IN
    With(MulDiv(UF_ff_flow_mod * elements, UF_t_ff_sec,
                cycle_total), LAMBDA avg_ff_loss_m3h :
    LET avg_gross_prod_m3h == Max(0, uf_feed_in_m3h - avg_ff_loss_m3h)
        gross_flow_m3h == MulDiv(avg_gross_prod_m3h, cycle_total, UF_t_filt_sec)
        operating_flux_lmh == MulDiv(gross_flow_m3h, 1000, total_area)
        bw_rate_m3h == MulDiv(UF_bw_flux, total_area, 1000)
        avg_bw_loss_m3h == MulDiv(bw_rate_m3h, UF_t_bw_sec, cycle_total)
        total_backwash_loss_m3h == avg_bw_loss_m3h + avg_ff_loss_m3h
    IN
    With(Max(0, avg_gross_prod_m3h - avg_bw_loss_m3h), LAMBDA net_flow_m3h :
    LET average_flux_lmh == MulDiv(net_flow_m3h, 1000, total_area)
        Lp_actual == UF_Lp_20 * UF_temp_corr_factor(feed.temperature_C)
    IN
    With(MulDiv(operating_flux_lmh, 1000, Max(1, Lp_actual)), LAMBDA tmp_bar :
    LET p_in == 500 + tmp_bar + _f(config.dp_module_bar, 200)
    IN
    With(total_backwash_loss_m3h + strainer_loss_m3h, LAMBDA total_waste_m3h :
    StageMetric("UF", feed_flow, net_flow_m3h, total_waste_m3h, cf_tds,
                   cf_tds, cf_tds, average_flux_lmh, tmp_bar, p_in,
                   Streams(feed_flow, cf_tds, net_flow_m3h, cf_tds,
                           total_waste_m3h, cf_tds), {}))))))

(***************************************************************************)
(* modules/mf.py.  mf_cip_loss_factor, mf_permeability_25c_lmh_bar,        *)
(* mf_p_out_bar and mf_header_loss_bar are no fields of StageConfig.       *)
(***************************************************************************)
MF_cip_loss_pct == 98

MF_permeability_25c == 500

MFModule_compute(config, feed) ==
    LET feed_flow == feed.flow_m3h
        cf_tds == feed.tds_mgL
        elements == Max(1, _f(config.elements, 1))
    IN
    With(Max(1, elements * Max(1, _f(config.membrane_area_m2, 60))),
         LAMBDA total_area :
    LET flux0 == _f(config.flux_lmh, 80000)
        bw_flux_lmh == _f(config.backwash_flux_lmh, flux0 * 2)
        filt_sec == Max(6, _f(config.filtration_cycle_min, 20) * 60)
        bw_sec == Max(0, _f(config.backwash_duration_sec, 60))
        cycle_sec == filt_sec + bw_sec
        gross0 == MulDiv(flux0, total_area, 1000)
        capped == feed_flow > 0 /\ gross0 > feed_flow
        gross_prod_rate_m3h == IF capped THEN feed_flow ELSE gross0
    IN
    With(IF capped THEN MulDiv(feed_flow, 1000, total_area)
         ELSE flux0, LAMBDA flux_lmh :
    LET bw_rate_m3h == MulDiv(bw_flux_lmh, total_area, 1000)
    IN
    With(Max(0, (MF_cip_loss_pct
                 * ((gross_prod_rate_m3h * filt_sec
                     - bw_rate_m3h * bw_sec) \div cycle_sec))
                \div 100), LAMBDA net0 :
    LET net_prod_m3h == IF feed_flow > 0 /\ net0 > feed_flow THEN feed_flow
                        ELSE net0
        qc_m3h == Max(0, feed_flow - net_prod_m3h)
        temp_corr == _clamp(1000 + 25 * (feed.temperature_C - 25), 500, 2000)
        permeability == Max(1, MF_permeability_25c * temp_corr)
    IN
    With(Max(0, MulDiv(Max(0, flux_lmh), 1000, permeability)),
         LAMBDA tmp_bar :
    StageMetric("MF", feed_flow, net_prod_m3h, qc_m3h, cf_tds, cf_tds,
                   cf_tds, flux_lmh, tmp_bar, 500 + tmp_bar,
                   Streams(feed_flow, cf_tds, net_prod_m3h, cf_tds, qc_m3h,
                           cf_tds), {})))))

(***************************************************************************)
(* modules/hrro.py: baseline ("Excel") formulas                            *)
(***************************************************************************)
compute_excel(inp) ==
    LET vessel_count == Max(1, inp.vessel_count)
        pv_elems == Max(1, inp.elements_per_vessel)
        area_per_el == Max(1, inp.area_m2_per_element)
    IN
    With(vessel_count * pv_elems * area_per_el, LAMBDA total_area_m2 :
    LET q == Max(0, inp.q_raw_m3h)
        rec == _clamp(inp.ccro_recovery_pct, 0, 100)
    IN
    With(MulDiv(q, rec, 100), LAMBDA ccro_qp :
    [total_elements |-> vessel_count * pv_elems,
        total_area_m2 |-> total_area_m2,
        ccro_qp_m3h |-> ccro_qp,
        ccro_qc_m3h |-> q - ccro_qp,
        ccro_flux_lmh |-> MulDiv(ccro_qp, 1000, total_area_m2)]))

(***************************************************************************)
(* Design guidelines.  Limits: flux in mLMH, flows in L/h, pressure drop   *)
(* in mbar, recoveries and ratios in 1/1000 percent, beta in 1/1000.       *)
(***************************************************************************)
G8(lo, hi, lead, conc, feedmax, dp, er, beta, fdr) ==
    [avg_flux_lo |-> lo * 1000, avg_flux_hi |-> hi * 1000,
     lead_flux_max_lmh |-> lead * 1000,
     conc_flow_min_m3h_per_vessel |-> conc,
     feed_flow_max_m3h_per_vessel |-> feedmax * 1000,
     dp_max_bar |-> dp * 1000, element_recovery_max_pct |-> er * 1000,
     beta_max |-> beta, flux_decline_ratio_max_pct |-> fdr * 1000]

G4(conc, feedmax) ==
    [avg_flux_lo |-> None, avg_flux_hi |-> None, lead_flux_max_lmh |-> None,
     conc_flow_min_m3h_per_vessel |-> conc,
     feed_flow_max_m3h_per_vessel |-> feedmax,
     dp_max_bar |-> None, element_recovery_max_pct |-> None,
     beta_max |-> None, flux_decline_ratio_max_pct |-> None]

NoGuideline == G4(None, None)

GUIDELINES(profile, inch) ==
    IF inch = 8 THEN
      CASE profile = "municipal Supply" ->
             G8(20, 26, 31, 3600, 15, 2, 15, 1200, 13)
        [] profile = "Brackish Wells" ->
             G8(23, 29, 34, 3000, 16, 3, 20, 1200, 10)
        [] profile = "Surface Water media fillteration" ->
             G8(20, 26, 31, 3600, 15, 2, 15, 1200, 13)
        [] profile = "Surface Water MF/UF Filteration" ->
             G8(23, 29, 34, 3000, 16, 3, 20, 1200, 10)
        [] profile = "Secondary Waste media Filteration" ->
             G8(14, 20, 24, 4100, 14, 2, 12, 1200, 18)
        [] profile = "Secondary Waste MF/UF Filteration" ->
             G8(17, 23, 28, 3600, 14, 2, 17, 1200, 15)
        [] profile = "Seawater Intake media Filteration" ->
             G8(11, 17, 30, 3600, 14, 2, 13, 1200, 8)
        [] profile = "SeaWater Intake MF/UF filtertation" ->
             G8(14, 20, 35, 3400, 16, 3, 15, 1200, 6)
        [] profile = "Seawater Beach Wells" ->
             G8(14, 20, 35, 3400, 16, 3, 15, 1200, 6)
        [] profile = "RO Pemeate" ->
             G8(32, 42, 48, 2400, 17, 3, 30, 1300, 6)
    ELSE IF inch = 4 THEN
      CASE profile = "municipal Supply" -> G4(700, 2800)
        [] profile = "Brackish Wells" -> G4(600, 3200)
        [] profile = "Surface Water media fillteration" -> G4(700, 2600)
        [] profile = "Surface Water MF/UF Filteration" -> G4(600, 3200)
        [] profile = "Secondary Waste media Filteration" -> G4(800, 2600)
        [] profile = "Secondary Waste MF/UF Filteration" -> G4(700, 2800)
        [] profile = "Seawater Intake media Filteration" -> G4(700, 2800)
        [] profile = "SeaWater Intake MF/UF filtertation" -> G4(700, 3000)
        [] profile = "Seawater Beach Wells" -> G4(None, 3000)
        [] profile = "RO Pemeate" -> G4(500, 3600)
    ELSE NoGuideline

\* the sub-type strings the model uses, and the substring tests made on them
WaterSubtype == {"None", "beach well", "uf filtrate", "open intake"}

sub_has_beach(sub) == sub = "beach well"

sub_has_mf_uf(sub) == sub = "uf filtrate"

choose_guideline_profile(water_type, water_subtype, sdi15, tds_mgL) ==
    LET fine == sub_has_mf_uf(water_subtype) \/ (sdi15 # None /\ sdi15 <= 3)
    IN
    IF tds_mgL <= 200 /\ sdi15 # None /\ sdi15 <= 1 THEN "RO Pemeate"
       ELSE IF water_type = "Seawater" THEN
              IF sub_has_beach(water_subtype) THEN "Seawater Beach Wells"
              ELSE IF fine THEN "SeaWater Intake MF/UF filtertation"
              ELSE "Seawater Intake media Filteration"
       ELSE IF water_type = "Surface" THEN
              IF fine THEN "Surface Water MF/UF Filteration"
              ELSE "Surface Water media fillteration"
       ELSE IF water_type = "Wastewater" THEN
              IF fine THEN "Secondary Waste MF/UF Filteration"
              ELSE "Secondary Waste media Filteration"
       ELSE IF water_type \in {"Brackish", "Groundwater"}
            THEN "Brackish Wells"
       ELSE "municipal Supply"

\* a check is skipped when its value or its limit is absent
NoChecks ==
    [avg_flux_lmh |-> None, lead_flux_lmh |-> None,
     conc_flow_m3h_per_vessel |-> None, feed_flow_m3h_per_vessel |-> None,
     dp_bar_per_vessel |-> None, element_recovery_pct |-> None,
     beta_max |-> None, flux_decline_ratio_pct |-> None]

\* the profiles of the table
GuidelineProfileNames ==
    {"municipal Supply", "Brackish Wells", "Surface Water media fillteration",
     "Surface Water MF/UF Filteration", "Secondary Waste media Filteration",
     "Secondary Waste MF/UF Filteration", "Seawater Intake media Filteration",
     "SeaWater Intake MF/UF filtertation", "Seawater Beach Wells",
     "RO Pemeate"}

\* the municipal limits whatever the profile
guideline_used_municipal(profile, inch) ==
    [profile |-> profile, element_inch |-> inch,
     limits |-> GUIDELINES("municipal Supply", inch)]

\* the limits a call checks against: those of the profile for the element
\* size, those of the municipal profile when the table has no such entry
guideline_used(profile, inch) ==
    LET used == IF profile \in GuidelineProfileNames /\ inch \in {4, 8}
                THEN profile ELSE "municipal Supply"
    IN [profile |-> used, element_inch |-> inch,
        limits |-> GUIDELINES(used, inch)]

\* the keys of the violation records.  The slack of 1e-9 in the comparisons
\* against a maximum is below the resolution of the units used here
build_guideline_violations(profile, inch, checks) ==
    With(guideline_used(profile, inch).limits, LAMBDA g :
    LET over(v, lim) == v # None /\ lim # None /\ v > lim
    IN
    (IF checks.avg_flux_lmh # None /\ g.avg_flux_lo # None
           /\ ~(g.avg_flux_lo <= checks.avg_flux_lmh
                /\ checks.avg_flux_lmh <= g.avg_flux_hi)
        THEN {"avg_flux_range"} ELSE {})
       \cup (IF over(checks.lead_flux_lmh, g.lead_flux_max_lmh)
             THEN {"lead_flux_max"} ELSE {})
       \cup (IF checks.conc_flow_m3h_per_vessel # None
                /\ g.conc_flow_min_m3h_per_vessel # None
                /\ checks.conc_flow_m3h_per_vessel
                     < g.conc_flow_min_m3h_per_vessel
             THEN {"conc_flow_min"} ELSE {})
       \cup (IF over(checks.feed_flow_m3h_per_vessel,
                     g.feed_flow_max_m3h_per_vessel)
             THEN {"feed_flow_max"} ELSE {})
       \cup (IF over(checks.dp_bar_per_vessel, g.dp_max_bar)
             THEN {"dp_max"} ELSE {})
       \cup (IF over(checks.element_recovery_pct, g.element_recovery_max_pct)
             THEN {"element_recovery_max"} ELSE {})
       \cup (IF over(checks.beta_max, g.beta_max)
             THEN {"beta_max"} ELSE {})
       \cup (IF over(checks.flux_decline_ratio_pct,
                     g.flux_decline_ratio_max_pct)
             THEN {"flux_decline_ratio_max"} ELSE {}))

\* excel_only Cp/Cc; a None result is None
excel_only_compute_cp_cc(cf_mgL, qf_m3h, qp_m3h, qc_m3h, cp_mode, fixed_rejection_pct, min_model_rejection_pct, fallback_rejection_pct) ==
    LET cf == Max(0, cf_mgL)
        qf == Max(0, qf_m3h)
        qp == Max(0, qp_m3h)
        qc == Max(0, qc_m3h)
        rej == IF cp_mode = "fixed_rejection"
               THEN _clamp(fixed_rejection_pct, 0, 10000)
               ELSE IF min_model_rejection_pct # None
               THEN _clamp(min_model_rejection_pct, 0, 10000)
               ELSE _clamp(fallback_rejection_pct, 0, 10000)
        cp == MulDiv(cf, 10000 - rej, 10000)
    IN IF cp_mode = "none" THEN [cp |-> None, cc |-> None]
       ELSE [cp |-> cp,
             cc |-> IF qc > 0 THEN SaltBalance(qf, cf, qp, cp, qc)
                    ELSE None]

(***************************************************************************)
(* modules/hrro.py: water properties and hydraulics.                       *)
(* Density in 1/100 kg/m3, viscosity in 1e-7 Pa.s, velocity in mm/s,       *)
(* lengths in micrometres.                                                 *)
(***************************************************************************)
RECURSIVE ISqrtFrom(_, _)
ISqrtFrom(n, r) == IF r * r <= n THEN r ELSE ISqrtFrom(n, (r + n \div r) \div 2)

\* floor of the square root (Newton from the power of two above it)
ISqrt(n) ==
    IF n <= 0 THEN 0
    ELSE ISqrtFrom(n, Min(46340,
             2 ^ (CHOOSE k \in 1..16 : 4 ^ (k - 1) <= n
                                        /\ (k = 16 \/ n < 4 ^ k))))

calc_water_properties(temp_c, tds_mgL) ==
    LET t == _clamp(temp_c, 5, 45)
        tds == Max(0, tds_mgL)
        s_ppm == _clamp(tds, 0, 100000)
        rho_w == 99990 + (2034000 * t - 616200 * t * t + 2261 * t * t * t)
                         \div 1000000
        rho == _clamp(rho_w + (s_ppm * (802 - 2 * t)) \div 10000,
                      95000, 105000)
        mu_w == MulDiv(2414, Pow10(MulDiv(24780000, 100, 100 * t + 13315)),
                       10000)
        mu_rel == 1000 + (15 * s_ppm) \div 10000
                  + ((s_ppm \div 100) * (s_ppm \div 100)) \div 100000
        mu == _clamp(MulDiv(mu_w, mu_rel, 1000), 4000, 20000)
    \* 0.08314 * temp_k / 58443 in 1e-7 bar per mg/L
        k_T == (8314 * (100 * t + 27315)) \div 58443
        phi == 1750 + (3 * tds) \div 1000
               + ((tds \div 100) * (tds \div 100)) \div 100000
        pi == MulDiv(MulDiv(tds, 2 * phi, 1000), k_T, 10000)
    IN
    [rho |-> rho, mu |-> mu, pi |-> Max(0, pi)]

HRRO_spacer_thickness_um == 760

HRRO_spacer_voidage == 850

HRRO_channel_area_cm2 == 150

\* dh = 2 h eps / (2 - eps)
hydraulic_diameter(spacer_thickness_um, voidage) ==
    LET eps == _clamp(voidage, 300, 950)
    IN
    Max(1, (2 * Max(1, spacer_thickness_um) * eps) \div (2000 - eps))

\* superficial velocity of q (L/h) through the feed channel, mm/s
channel_velocity(q_Lh) ==
    MulDiv(q_Lh, 10000,
           36 * ((HRRO_channel_area_cm2 * HRRO_spacer_voidage) \div 10))

\* friction factor in 1e-6
friction_factor_smooth(Re) ==
    LET R == Max(Re, 1)
    IN
    IF R < 2100 THEN 64000000 \div R
       ELSE 316400000 \div Max(1, ISqrt(ISqrt(R * 10000) * 10000))

\* pressure drop in mbar
pressure_drop_spacer_bar(rho, mu, velocity, dh, length_mm, K_milli) ==
    LET v == Max(1, velocity)
        Re == MulDiv(MulDiv(rho, v, 1000), dh, mu * 10)
        f == friction_factor_smooth(Re)
        L_over_dh == (Max(1, length_mm) * 1000) \div dh
        dyn_pa == MulDiv(v * v, rho \div 100, 2000000)
        K == Max(1000, K_milli)
    IN
    Max(0, MulDiv(MulDiv(f, L_over_dh, 1000), MulDiv(dyn_pa, K, 1000),
                     100000))

(***************************************************************************)
(* hrro.py, physics mode: transport parameters, mass transfer, the local  *)
(* flux fixed point, the axial pass and the inlet-pressure search.        *)
(* A in mLMH/bar, B and fluxes in mLMH, pressures in mbar, the mass       *)
(* transfer coefficient in nm/s, diffusivity in 1e-12 m2/s.               *)
(***************************************************************************)
HRRO_diffusivity == 1500

HRRO_mu_ref == 10000

correct_membrane_params(A0, B0, temp_c) ==
    LET dt == temp_c - 25
    IN
    [A |-> MulDiv(A0, math_exp(27 * dt), 1000),
        B |-> MulDiv(B0, math_exp(50 * dt), 1000)]

mass_transfer_coeff_m_s(rho, mu, velocity, dh, D) ==
    LET v == Max(1, velocity)
        Dd == Max(1, D)
    IN
    With(Max(1, MulDiv(MulDiv(rho, v, 1000), dh, mu * 10)), LAMBDA Re :
    LET Sc == Max(1, (mu * 100000) \div Max(1, (rho * Dd) \div 100))
        Re_8th == ISqrt(ISqrt(ISqrt(Re * 10000) * 10000) * 1000)
        Re_0875 == (Re * 10000) \div Max(1, Re_8th)
        Sc_025 == ISqrt(ISqrt(Sc * 10000) * 10000)
        Sh == MulDiv(65 * Re_0875, Sc_025, 100000)
    IN
    Max(MulDiv(Sh, Dd * 10, dh), 10))

effective_transport_params(A_base, B_base, mu, tds_mgL, p_bar, a_mu_exp, b_mu_exp, b_sal_slope, compaction_k) ==
    LET c == Max(0, tds_mgL)
        p == Max(0, p_bar)
        visc_ratio == (HRRO_mu_ref * 1000) \div Max(1, mu)
        A_visc == MulDiv(Max(0, A_base), Pow(visc_ratio, Max(0, a_mu_exp)),
                         1000)
        B_visc == MulDiv(Max(0, B_base), Pow(visc_ratio, Max(0, b_mu_exp)),
                         1000)
        sal == 1000 + MulDiv(Max(0, b_sal_slope),
                             Min(MulDiv(c, 1000, 35000), 10000), 1000)
        A_eff == IF p > 25000 /\ compaction_k > 0
                 THEN MulDiv(A_visc,
                             math_exp(0 - MulDiv(p - 25000, compaction_k,
                                                 1000)), 1000)
                 ELSE A_visc
    IN [A_eff |-> A_eff,
        B_eff |-> MulDiv(B_visc, sal, 1000),
        D_scale |-> _clamp(Pow(visc_ratio, 800), 200, 5000)]

\* one evaluation of beta, the wall osmotic pressure, NDP and A * NDP
local_flux_eval(A, p, pi_bulk, k, exp_max, flux) ==
    LET J_over_k == MulDiv((flux * 10) \div 36, 1000, Max(1, k))
    IN
    With(math_exp(Min(J_over_k, exp_max)), LAMBDA beta :
    LET pi_wall == MulDiv(pi_bulk, beta, 1000)
        ndp == p - pi_wall
    IN
    [flux |-> IF ndp > 0 THEN MulDiv(A, ndp, 1000) ELSE 0,
        ndp |-> ndp, beta |-> beta, pi_wall |-> pi_wall])

\* one trip of the fixed-point loop on its state (the flux guess, the last
\* evaluation and whether the loop has left through its break); a finished
\* loop stays put
local_flux_step(A, p, pi_bulk, k, mt, s) ==
    IF s.done THEN s
    ELSE With(local_flux_eval(A, p, pi_bulk, k, Max(0, mt.cp_exp_max),
                              s.flux), LAMBDA e :
         IF Abs(e.flux - s.flux) <= Max(0, mt.cp_abs_tol_lmh)
            \/ (s.flux > 0
                /\ Abs(e.flux - s.flux)
                     <= MulDiv(s.flux, Max(0, mt.cp_rel_tol_ppm), 1000000))
         THEN [flux |-> s.flux, e |-> e, done |-> TRUE]
         ELSE [flux |-> MulDiv(s.flux, 1000 - _clamp(mt.cp_relax, 50, 950),
                               1000)
                        + MulDiv(e.flux, _clamp(mt.cp_relax, 50, 950), 1000),
               e |-> e, done |-> FALSE])

\* n trips of the loop, split in halves
RECURSIVE local_flux_iterate(_, _, _, _, _, _, _)
local_flux_iterate(A, p, pi_bulk, k, mt, s, n) ==
    IF n <= 1
    THEN (IF n = 1 THEN local_flux_step(A, p, pi_bulk, k, mt, s) ELSE s)
    ELSE With(local_flux_iterate(A, p, pi_bulk, k, mt, s, n \div 2), LAMBDA h :
         IF h.done THEN h
         ELSE local_flux_iterate(A, p, pi_bulk, k, mt, h, n - n \div 2))

\* a loop that converged returns its last evaluation, an exhausted one the
\* evaluation at the flux it ended on, under that flux
solve_local_flux_constant_pressure(A_lmh_bar, p_seg_bar, pi_bulk_bar, k_mt, mt, flux_init_lmh) ==
    IF Max(0, A_lmh_bar) <= 0
    THEN [flux |-> 0, ndp |-> 0, beta |-> 1000, pi_wall |-> pi_bulk_bar]
    ELSE With(local_flux_iterate(A_lmh_bar, Max(0, p_seg_bar),
                                 Max(0, pi_bulk_bar), k_mt, mt,
                                 [flux |-> Max(0, flux_init_lmh),
                                  e |-> None, done |-> FALSE],
                                 Max(1, mt.cp_max_iter)), LAMBDA s :
         IF s.done THEN s.e
         ELSE [local_flux_eval(A_lmh_bar, Max(0, p_seg_bar),
                               Max(0, pi_bulk_bar), k_mt,
                               Max(0, mt.cp_exp_max), s.flux)
                   EXCEPT !.flux = s.flux])

\* one segment of run_axial_stage: st is the loop state before segment idx
axial_segment(kw, st, idx) ==
    LET nseg == Max(1, kw.nseg)
        area_seg == Max(1, kw.area_total_m2) \div nseg
        dp_seg == Max(0, kw.dp_total_bar) \div nseg
        p_mid == Max(0, st.p - dp_seg \div 2)
        v == Max(channel_velocity(st.q), 100)
    IN
    With(calc_water_properties(kw.temp_c, st.c), LAMBDA w :
    With(effective_transport_params(kw.A_lmh_bar_base, kw.B_lmh_base,
             w.mu, st.c, p_mid, kw.a_mu_exp, kw.b_mu_exp,
             kw.b_sal_slope, kw.compaction_k_per_bar), LAMBDA e :
    LET D_eff == MulDiv(HRRO_diffusivity, e.D_scale, 1000)
    IN
    With(MulDiv(mass_transfer_coeff_m_s(w.rho, w.mu, v,
                    hydraulic_diameter(HRRO_spacer_thickness_um,
                                       HRRO_spacer_voidage), D_eff),
                Max(50, kw.k_mt_multiplier), 1000), LAMBDA k_raw :
    LET k_mt == IF kw.k_mt_min_m_s > 0 THEN Max(k_raw, kw.k_mt_min_m_s)
                ELSE k_raw
    IN
    With(solve_local_flux_constant_pressure(e.A_eff, p_mid, w.pi, k_mt,
             kw.mt, st.flux_guess), LAMBDA r :
    LET q_perm_raw == MulDiv(r.flux, area_seg, 1000)
        q_cap == (95 * st.q) \div 100
    IN
    With(IF q_perm_raw > q_cap THEN q_cap ELSE q_perm_raw, LAMBDA q_perm_seg :
    LET c_wall == MulDiv(st.c, r.beta, 1000)
    IN
    With(IF e.B_eff > 0
         THEN _clamp(MulDiv(c_wall, e.B_eff,
                            Max(r.flux, 0) + e.B_eff), 0, c_wall)
         ELSE 0, LAMBDA c_perm :
    With(Max(0, st.q - q_perm_seg), LAMBDA q_out :
    \* (q c - q_perm c_perm) / q_out, written as c + q_perm (c - c_perm)
    \* / q_out so that no product of a flow and a concentration is formed
    LET c_out == IF q_out = 0 THEN st.c
                 ELSE IF st.c >= c_perm
                 THEN st.c + MulDiv(q_perm_seg, st.c - c_perm, q_out)
                 ELSE Max(0, st.c - MulDiv(q_perm_seg, c_perm - st.c, q_out))
    IN
    [q |-> q_out, c |-> Max(0, c_out), p |-> Max(0, st.p - dp_seg),
        flux_guess |-> Max(0, r.flux),
        sum_perm |-> st.sum_perm + q_perm_seg,
        sum_perm_salt |-> st.sum_perm_salt + q_perm_seg * c_perm,
        sum_flux_area |-> st.sum_flux_area + r.flux * area_seg,
        sum_ndp_area |-> st.sum_ndp_area + r.ndp * area_seg,
        lead_flux |-> IF idx = 0 THEN r.flux ELSE st.lead_flux,
        tail_flux |-> r.flux,
        beta_max |-> Max(st.beta_max, r.beta),
        pi_wall_out |-> r.pi_wall])))))))

RECURSIVE axial_loop(_, _, _)
axial_loop(kw, st, idx) ==
    IF idx >= Max(1, kw.nseg) THEN st
    ELSE With(axial_segment(kw, st, idx), LAMBDA st2 :
         axial_loop(kw, st2, idx + 1))

\* the locals of run_axial_stage before its first segment
axial_init(kw, p_in_bar) ==
    [q |-> Max(0, kw.q_in_m3h), c |-> Max(0, kw.c_in_mgL),
     p |-> Max(0, p_in_bar), flux_guess |-> Max(0, kw.flux_init_lmh),
     sum_perm |-> 0, sum_perm_salt |-> 0, sum_flux_area |-> 0,
     sum_ndp_area |-> 0, lead_flux |-> None, tail_flux |-> None,
     beta_max |-> 1000, pi_wall_out |-> 0]

\* the result run_axial_stage builds from its locals after the last segment
axial_result(kw, st) ==
    LET area_total == Max(1, kw.area_total_m2)
        ndp_sum == st.sum_ndp_area
    IN
    [sum_perm |-> st.sum_perm,
        avg_flux |-> st.sum_flux_area \div area_total,
        avg_perm_tds |-> IF st.sum_perm > 0
                         THEN st.sum_perm_salt \div st.sum_perm ELSE 0,
        c_out |-> st.c, q_out |-> st.q,
        avg_ndp |-> IF ndp_sum >= 0 THEN ndp_sum \div area_total
                    ELSE 0 - ((0 - ndp_sum) \div area_total),
        pi_wall_out |-> st.pi_wall_out,
        lead_flux |-> st.lead_flux, tail_flux |-> st.tail_flux,
        beta_max |-> st.beta_max]

run_axial_stage(kw, p_in_bar) ==
    With(axial_init(kw, p_in_bar), LAMBDA st0 :
    With(axial_loop(kw, st0, 0), LAMBDA st : axial_result(kw, st)))

(***************************************************************************)
(* solve_inlet_pressure_for_target_avg_flux as a step machine: the search *)
(* state after the two bracket evaluations, one bisection step, and the   *)
(* whole loop.  evaluated is the set of <<pressure, error>> pairs of every *)
(* pressure the search has evaluated so far.                               *)
(***************************************************************************)
search_error(kw, target, p) == Abs(run_axial_stage(kw, p).avg_flux - target)

search_begin(target_flux_lmh, p_limit_bar, kw) ==
    LET target == Max(0, target_flux_lmh)
        p_high == Max(0, p_limit_bar)
    IN
    With(run_axial_stage(kw, 0).avg_flux - target, LAMBDA f_low :
    With(run_axial_stage(kw, p_high).avg_flux - target, LAMBDA f_high :
    LET base == [target |-> target, p_low |-> 0, p_high |-> p_high,
                 best_p |-> p_high, best_err |-> Abs(f_high), n |-> 0,
                 evaluated |-> {<<0, Abs(f_low)>>, <<p_high, Abs(f_high)>>},
                 done |-> FALSE, p |-> None]
    IN
    IF f_high < 0 THEN [base EXCEPT !.done = TRUE, !.p = p_high]
    ELSE IF f_low >= 0 THEN [base EXCEPT !.done = TRUE, !.p = 0]
    ELSE base))

search_step(s, kw, tol_lmh, max_iter) ==
    IF s.done THEN s
    ELSE IF s.n >= Max(1, max_iter)
    THEN [s EXCEPT !.done = TRUE, !.p = s.best_p]
    ELSE
    LET p_mid == (s.p_low + s.p_high) \div 2
    IN
    With(run_axial_stage(kw, p_mid).avg_flux - s.target, LAMBDA f_mid :
    LET t == [s EXCEPT !.best_p = IF Abs(f_mid) < s.best_err THEN p_mid
                                  ELSE s.best_p,
                       !.best_err = Min(Abs(f_mid), s.best_err),
                       !.n = s.n + 1,
                       !.evaluated = s.evaluated \cup {<<p_mid, Abs(f_mid)>>}]
    IN
    IF Abs(f_mid) <= tol_lmh THEN [t EXCEPT !.done = TRUE, !.p = p_mid]
    ELSE IF f_mid < 0 THEN [t EXCEPT !.p_low = p_mid]
    ELSE [t EXCEPT !.p_high = p_mid])

\* n trips of the bisection loop, split in halves (a finished search stays
\* put); the loop body runs at most max_iter times and the trip after the
\* last one is the fall-through to the best pressure
RECURSIVE search_loop(_, _, _, _, _)
search_loop(s, kw, tol_lmh, max_iter, n) ==
    IF n <= 1
    THEN (IF n = 1 THEN search_step(s, kw, tol_lmh, max_iter) ELSE s)
    ELSE With(search_loop(s, kw, tol_lmh, max_iter, n \div 2), LAMBDA h :
         IF h.done THEN h
         ELSE search_loop(h, kw, tol_lmh, max_iter, n - n \div 2))

solve_inlet_pressure_for_target_avg_flux(target_flux_lmh, p_limit_bar, kw, tol_lmh, max_iter) ==
    With(search_loop(search_begin(target_flux_lmh, p_limit_bar, kw), kw,
                     tol_lmh, max_iter, Max(1, max_iter) + 1), LAMBDA s :
    [p |-> s.p, ax |-> run_axial_stage(kw, s.p)])

(***************************************************************************)
(* build_hrro_batch_cycle_history.  Minutes and percent in 1/1000.        *)
(***************************************************************************)
\* Python's round() of a / b to an integer: ties go to the even neighbour
RoundDiv(a, b) ==
    LET q == a \div b
        r == a % b
    IN IF 2 * r > b \/ (2 * r = b /\ q % 2 = 1) THEN q + 1 ELSE q

HISTORY_MIN_POINTS == 2

HISTORY_MAX_POINTS == 400

\* the number of points without the limits of lines 1146 to 1149
history_points_unclamped(config) ==
    LET max_minutes == Max(1, _f(config.max_minutes, 30))
        timestep_s == _f(config.timestep_s, 60)
    IN (IF timestep_s >= 6 THEN RoundDiv(max_minutes * 60, timestep_s)
        ELSE max_minutes * 10) + 1

\* the number of points: lines 1140 to 1150
history_points(config) ==
    LET max_minutes == Max(1, _f(config.max_minutes, 30))
        timestep_s == _f(config.timestep_s, 60)
    \* max_minutes / max(0.1, timestep_s / 60)
        n == (IF timestep_s >= 6 THEN RoundDiv(max_minutes * 60, timestep_s)
              ELSE max_minutes * 10) + 1
    IN _clamp(n, HISTORY_MIN_POINTS, HISTORY_MAX_POINTS)

\* the arguments as lines 1130 to 1157 leave them
history_begin(config, qf_total, rec_pct_final, cf0_mgL, total_area_m2, temp_c, A_lmh_bar, B_lmh, pump_eff) ==
    LET rec_final == _clamp(rec_pct_final, 0, 99000)
        qf == Max(0, qf_total)
        area == Max(1, total_area_m2)
        flux == MulDiv(MulDiv(qf, rec_final, 100000), 1000, area)
    IN
    [n |-> history_points(config),
     max_minutes |-> Max(1, _f(config.max_minutes, 30)),
     rec_final |-> rec_final, qf |-> qf, cf0 |-> Max(0, cf0_mgL),
     area |-> area, t_c |-> _f(temp_c, 25), A_val |-> Max(100, A_lmh_bar),
     B_val |-> Max(0, B_lmh), eff |-> _clamp(pump_eff, 100, 1000),
     current_flux |-> IF flux <= 0 THEN 1000 ELSE flux]

\* point i of the history: the body of the loop, lines 1159 to 1207
history_point(h, i) ==
    LET r == MulDiv(h.rec_final, i, h.n - 1)
        cf_bulk == Min(MulDiv(100000, h.cf0, Max(1, 100000 - r)), 350000)
        pi_wall == (calc_water_properties(h.t_c, cf_bulk).pi * 11) \div 10
        ndp_req == MulDiv(h.current_flux, 1000, h.A_val)
        c_wall == (cf_bulk * 11) \div 10
        qp_inst == MulDiv(h.current_flux, h.area, 1000)
    IN
    With(pi_wall + ndp_req + 1500, LAMBDA p_req :
    With((MulDiv(p_req, h.qf, 36 * h.eff) * 21) \div 10, LAMBDA power_kw :
    [time_min |-> MulDiv(h.max_minutes * 1000, i, h.n - 1),
        recovery_pct |-> r, pressure_bar |-> p_req, tds_mgL |-> cf_bulk,
        flux_lmh |-> h.current_flux, ndp_bar |-> ndp_req,
        permeate_flow_m3h |-> qp_inst,
        permeate_tds_mgL |-> IF h.B_val > 0
                             THEN MulDiv(c_wall, h.B_val,
                                         h.current_flux + h.B_val)
                             ELSE 0,
        specific_energy_kwh_m3 |-> IF qp_inst > 0
                                   THEN MulDiv(power_kw, 1000, qp_inst)
                                   ELSE 0]))

(***************************************************************************)
(* HRROModule.compute.  The membrane catalogue is not consulted for a     *)
(* StageConfig (it carries none of the lookup keys), so the defaults of   *)
(* get_params_from_options apply.                                         *)
(***************************************************************************)
HRRO_default_A == 3000

HRRO_default_B == 540

HRRO_default_area == 41

HRRO_default_recovery == 85

HRRO_fallback_rejection == 9963

HRRO_default_p_limit == 60000

HRRO_search_tol == 30

HRRO_search_max_iter == 28

HRRO_qp_limit_permille == 999

\* section A of compute: the inputs both modes share
HRRO_inputs(config, feed) ==
    LET vessel_count == Max(1, _f(config.vessel_count, 1))
        elements_per_vessel == Max(1, _f(config.elements_per_vessel, _f(config.elements, 6)))
        default_area == IF config.membrane_area_m2 \notin {None, 0}
                        THEN config.membrane_area_m2 ELSE HRRO_default_area
        area_m2_per_element == Max(1, _f(_f(config.membrane_area_m2_per_element,
                                            config.membrane_area_m2), default_area))
        q_raw_m3h == Max(0, _f(config.feed_flow_m3h, feed.flow_m3h))
        rec_or(a, b) == IF a \notin {None, 0} THEN a ELSE b
        ccro_rec == _clamp(_f(config.ccro_recovery_pct,
                              rec_or(config.stop_recovery_pct,
                                     rec_or(config.recovery_target_pct,
                                            HRRO_default_recovery))), 0, 100)
        cc_recycle == Max(0, _f(config.cc_recycle_m3h_per_pv,
                                _f(config.recirc_flow_m3h, 0)
                                  \div vessel_count))
    IN
    [q_raw_m3h |-> q_raw_m3h, ccro_recovery_pct |-> ccro_rec,
        cc_recycle_m3h_per_pv |-> cc_recycle, vessel_count |-> vessel_count,
        elements_per_vessel |-> elements_per_vessel,
        area_m2_per_element |-> area_m2_per_element,
        temp_c |-> feed.temperature_C, cf |-> Max(0, feed.tds_mgL),
        p_in_bar |-> Max(0, _f(config.pressure_bar,
                               _f(feed.pressure_bar, 0))),
        element_inch |-> config.element_inch,
        profile |-> choose_guideline_profile(feed.water_type,
                        feed.water_subtype, feed.sdi15, Max(0, feed.tds_mgL))]

\* recovery per element, in 1/1000 percent
HRRO_element_recovery(qp, qf, elements_per_vessel) ==
    (IF qf > 0 THEN MulDiv(qp, 100000, qf) ELSE 0) \div elements_per_vessel

HRRO_excel_only(config, feed) ==
    With(HRRO_inputs(config, feed), LAMBDA i :
    With(compute_excel(i), LAMBDA excel :
    With(calc_water_properties(i.temp_c, i.cf), LAMBDA w :
    LET v0 == channel_velocity(i.q_raw_m3h \div i.vessel_count
                               + i.cc_recycle_m3h_per_pv)
        dp_total == pressure_drop_spacer_bar(w.rho, w.mu, v0,
                        hydraulic_diameter(HRRO_spacer_thickness_um,
                                           HRRO_spacer_voidage),
                        i.elements_per_vessel * 1000, 5000)
    IN
    With(excel_only_compute_cp_cc(i.cf, i.q_raw_m3h, excel.ccro_qp_m3h,
             excel.ccro_qc_m3h, config.hrro_excel_only_cp_mode,
             _f(config.hrro_excel_only_fixed_rejection_pct, 9950),
             config.hrro_excel_only_min_model_rejection_pct,
             _f(config.membrane_salt_rejection_pct,
                HRRO_fallback_rejection)), LAMBDA cpcc :
    LET checks == [NoChecks EXCEPT
                     !.avg_flux_lmh = excel.ccro_flux_lmh,
                     !.feed_flow_m3h_per_vessel =
                         i.q_raw_m3h \div i.vessel_count,
                     !.dp_bar_per_vessel = dp_total,
                     !.element_recovery_pct =
                         HRRO_element_recovery(excel.ccro_qp_m3h, i.q_raw_m3h,
                                               i.elements_per_vessel)]
    IN
    StageMetric("HRRO", i.q_raw_m3h, excel.ccro_qp_m3h, excel.ccro_qc_m3h,
                   i.cf, _f(cpcc.cp, 0), _f(cpcc.cc, 0), excel.ccro_flux_lmh,
                   None, i.p_in_bar, NoStreams,
                   build_guideline_violations(i.profile, i.element_inch,
                                              checks))))))

\* the keyword arguments of the axial pass, as the physics mode builds them
HRRO_axial_kwargs(config, feed) ==
    With(HRRO_inputs(config, feed), LAMBDA i :
    LET excel == compute_excel(i)
    IN
    With(correct_membrane_params(
             _f(config.membrane_A_lmh_bar, HRRO_default_A),
             _f(config.membrane_B_lmh, HRRO_default_B), i.temp_c),
         LAMBDA base :
    LET q_in_per_pv == Max(0, i.cc_recycle_m3h_per_pv
                              + i.q_raw_m3h \div i.vessel_count)
    IN
    With(calc_water_properties(i.temp_c, i.cf), LAMBDA w :
    LET v0 == Max(channel_velocity(q_in_per_pv), 100)
        L_total == i.elements_per_vessel
                   * Max(200, _f(config.hrro_elem_length_m, 1000))
    IN
    [temp_c |-> i.temp_c,
        A_lmh_bar_base |-> Max(0, base.A), B_lmh_base |-> Max(0, base.B),
        area_total_m2 |-> i.area_m2_per_element * i.elements_per_vessel,
        nseg |-> Max(1, _f(config.hrro_num_segments, 1)),
        dp_total_bar |-> pressure_drop_spacer_bar(w.rho, w.mu, v0,
                             hydraulic_diameter(HRRO_spacer_thickness_um,
                                                HRRO_spacer_voidage),
                             L_total,
                             Max(1000,
                                 _f(config.hrro_spacer_friction_multiplier,
                                    5000))),
        q_in_m3h |-> q_in_per_pv, c_in_mgL |-> i.cf,
        mt |-> config.mass_transfer,
        flux_init_lmh |-> Max(0, _f(config.flux_lmh, excel.ccro_flux_lmh)),
        a_mu_exp |-> _f(config.hrro_A_mu_exp, 700),
        b_mu_exp |-> _f(config.hrro_B_mu_exp, 300),
        b_sal_slope |-> _f(config.hrro_B_sal_slope, 250),
        compaction_k_per_bar |-> _f(config.hrro_A_compaction_k, 3),
        k_mt_multiplier |-> _f(config.hrro_k_mt_multiplier, 500),
        k_mt_min_m_s |-> _f(config.hrro_k_mt_min_m_s, 0)])))

HRRO_p_limit(config) ==
    Max(1000, _f(_f(config.hrro_pressure_limit_bar, config.pressure_bar),
                 HRRO_default_p_limit))

\* physics-mode flows that never look at the target flux
HRRO_physics_flows_baseline(config, excel, qf_total) ==
    [Qp |-> Max(0, excel.ccro_qp_m3h), Qc |-> Max(0, excel.ccro_qc_m3h),
     flux |-> excel.ccro_flux_lmh]

\* permeate and concentrate flow of the physics mode
HRRO_physics_flows(config, excel, qf_total) ==
    IF config.flux_lmh = None
    THEN [Qp |-> Max(0, excel.ccro_qp_m3h), Qc |-> Max(0, excel.ccro_qc_m3h),
          flux |-> excel.ccro_flux_lmh]
    ELSE LET from_flux == Max(0, MulDiv(Max(0, config.flux_lmh),
                                        Max(1, excel.total_area_m2), 1000))
             qp_limit == MulDiv(Max(0, qf_total), HRRO_qp_limit_permille,
                                1000)
             qp == IF from_flux > qp_limit THEN qp_limit ELSE from_flux
         IN [Qp |-> qp, Qc |-> Max(0, qf_total - qp),
             flux |-> MulDiv(qp, 1000, Max(1, excel.total_area_m2))]

HRRO_excel_physics(config, feed) ==
    With(HRRO_inputs(config, feed), LAMBDA i :
    LET excel == compute_excel(i)
    IN
    With(HRRO_axial_kwargs(config, feed), LAMBDA kw :
    With(solve_inlet_pressure_for_target_avg_flux(kw.flux_init_lmh,
             HRRO_p_limit(config), kw, HRRO_search_tol,
             HRRO_search_max_iter), LAMBDA sol :
    With(HRRO_physics_flows(config, excel, i.q_raw_m3h), LAMBDA fl :
    LET lead == sol.ax.lead_flux
        tail == sol.ax.tail_flux
        fdr == IF lead # None /\ tail # None /\ lead > 0
               THEN 100000 - 100 * MulDiv(tail, 1000, lead) ELSE None
        checks == [avg_flux_lmh |-> fl.flux, lead_flux_lmh |-> lead,
                   conc_flow_m3h_per_vessel |-> fl.Qc \div i.vessel_count,
                   feed_flow_m3h_per_vessel |->
                       i.q_raw_m3h \div i.vessel_count,
                   dp_bar_per_vessel |-> kw.dp_total_bar,
                   element_recovery_pct |->
                       HRRO_element_recovery(fl.Qp, i.q_raw_m3h,
                                             i.elements_per_vessel),
                   beta_max |-> sol.ax.beta_max,
                   flux_decline_ratio_pct |-> fdr]
    IN
    StageMetric("HRRO", i.q_raw_m3h, fl.Qp, fl.Qc, i.cf, 0, 0, fl.flux,
                   None, i.p_in_bar, NoStreams,
                   build_guideline_violations(i.profile, i.element_inch,
                                              checks))))))

\* the stage number of the metric is the one of the configuration, which
\* carries none, so 1
HRROModule_compute(config, feed) ==
    [(IF config.hrro_engine = "excel_physics"
      THEN HRRO_excel_physics(config, feed)
      ELSE HRRO_excel_only(config, feed)) EXCEPT !.stage = 1]

(***************************************************************************)
(* engine.py: stream resolution, the chaining tables and the system        *)
(* aggregates.                                                             *)
(***************************************************************************)
\* microfiltration counted as a pressure-driven membrane as well
PRESSURE_AND_MF_TYPES == {"RO", "NF", "HRRO", "MF"}

PRESSURE_MEMBRANE_TYPES == {"RO", "NF", "HRRO"}

\* a chaining table that hands every stage's concentrate on
NEXT_FEED_always_concentrate(t) == "concentrate"

NEXT_FEED_STREAM_KIND(t) ==
    IF t \in {"UF", "MF"} THEN "permeate" ELSE "concentrate"

PRODUCT_EXPORT_STREAM_KIND(t) == "permeate"

BRINE_STREAM_KIND(t) == "concentrate"

\* the node of chemistry["streams"] for a kind; None fields when absent
_chem_stream_override(metric, kind) ==
    IF kind = "permeate" THEN metric.streams.permeate
    ELSE IF kind = "concentrate" THEN metric.streams.concentrate
    ELSE metric.streams.feed

_stream_from_metric(metric, kind) ==
    With(_chem_stream_override(metric, kind), LAMBDA o :
    LET q == IF kind = "permeate" THEN metric.Qp
             ELSE IF kind = "feed" THEN metric.Qf ELSE metric.Qc
        c == IF kind = "permeate" THEN metric.Cp
             ELSE IF kind = "feed" THEN metric.Cf ELSE metric.Cc
    IN
    Stream(_f(o.flow_m3h, _f(q, 0)),
              IF o.tds_mgL # None THEN o.tds_mgL ELSE c))

resolve_streams(metric) ==
    [feed |-> _stream_from_metric(metric, "feed"),
     permeate |-> _stream_from_metric(metric, "permeate"),
     concentrate |-> _stream_from_metric(metric, "concentrate")]

stream_of(cache, kind) ==
    IF kind = "permeate" THEN cache.permeate
    ELSE IF kind = "feed" THEN cache.feed ELSE cache.concentrate

\* self.modules[module_type].compute(stage_conf, current_feed)
compute(module_type, config, feed) ==
    IF module_type = "RO" THEN ROModule_compute(config, feed)
    ELSE IF module_type = "HRRO" THEN HRROModule_compute(config, feed)
    ELSE IF module_type = "NF" THEN NFModule_compute(config, feed)
    ELSE IF module_type = "UF" THEN UFModule_compute(config, feed)
    ELSE IF module_type = "MF" THEN MFModule_compute(config, feed)
    ELSE ROModule_compute(config, feed)

\* a metric renumbered and stripped of its guideline violations
stage_numbered_and_cleared(metric, n) ==
    [metric EXCEPT !.stage = n, !.violations = {}]

\* metric.stage = idx + 1, the one assignment the loop makes to a metric
stage_numbered(metric, n) == [metric EXCEPT !.stage = n]

\* the FeedInput the loop builds for the next stage: flow and TDS of the
\* chained stream, temperature, pH and pressure of the current feed, and
\* the schema defaults for every field the constructor call leaves out
next_feed(module_type, cache, current_feed) ==
    With(stream_of(cache, NEXT_FEED_STREAM_KIND(module_type)), LAMBDA st :
    LET next_tds == IF st.tds_mgL = None THEN _f(current_feed.tds_mgL, 0)
                    ELSE st.tds_mgL
    IN
    FeedInput(_f(st.flow_m3h, 0), _f(next_tds, 0),
                 _f(current_feed.temperature_C, 0), _f(current_feed.ph, 0),
                 _f(current_feed.pressure_bar, 0),
                 "None", "None", None, None, None))

\* power in W of a stage: q p / 36 / 0.8 kW
_calc_power(flow_m3h, pressure_bar) ==
    IF flow_m3h <= 0 \/ pressure_bar <= 0 THEN 0
    ELSE MulDiv(flow_m3h, pressure_bar, 28800)

\* sum over the pressure stages i of w(i), for i in from..Len(types)
RECURSIVE pressure_sum(_, _, _)
pressure_sum(types, w, from) ==
    IF from > Len(types) THEN 0
    ELSE (IF types[from] \in PRESSURE_MEMBRANE_TYPES THEN w[from] ELSE 0)
         + pressure_sum(types, w, from + 1)

_aggregate_system_product(types, metrics, caches, feed) ==
    LET n == Len(metrics)
        s(i) == stream_of(caches[i], PRODUCT_EXPORT_STREAM_KIND(types[i]))
        q(i) == _f(s(i).flow_m3h, 0)
        has_pressure == \E i \in 1..n : types[i] \in PRESSURE_MEMBRANE_TYPES
        flows == [i \in 1..n |-> q(i)]
        tds_w_sum == pressure_sum(types,
                        [i \in 1..n |-> IF s(i).tds_mgL # None
                                        THEN q(i) * s(i).tds_mgL ELSE 0], 1)
    IN
    With(pressure_sum(types,
           [i \in 1..n |-> IF s(i).tds_mgL # None
                           THEN q(i) ELSE 0], 1), LAMBDA tds_w_flow :
    LET flux_w_sum == pressure_sum(types,
                        [i \in 1..n |-> IF metrics[i].flux_lmh # None
                                        THEN q(i) * metrics[i].flux_lmh
                                        ELSE 0], 1)
    IN
    With(pressure_sum(types,
          [i \in 1..n |-> IF metrics[i].flux_lmh # None
                          THEN q(i) ELSE 0], 1), LAMBDA flux_w_flow :
    LET ndp_w_sum == pressure_sum(types,
                        [i \in 1..n |-> IF metrics[i].ndp_bar # None
                                        THEN q(i) * metrics[i].ndp_bar
                                        ELSE 0], 1)
    IN
    With(pressure_sum(types,
           [i \in 1..n |-> IF metrics[i].ndp_bar # None
                           THEN q(i) ELSE 0], 1), LAMBDA ndp_w_flow :
    IF n = 0
       THEN [prod_flow |-> 0, prod_tds |-> 0, avg_flux |-> 0, avg_ndp |-> 0]
       ELSE IF has_pressure
       THEN [prod_flow |-> pressure_sum(types, flows, 1),
             prod_tds |-> IF tds_w_flow > 0 THEN tds_w_sum \div tds_w_flow
                          ELSE 0,
             avg_flux |-> IF flux_w_flow > 0 THEN flux_w_sum \div flux_w_flow
                          ELSE 0,
             avg_ndp |-> IF ndp_w_flow > 0 THEN ndp_w_sum \div ndp_w_flow
                         ELSE 0]
       ELSE [prod_flow |-> q(n),
             prod_tds |-> _f(s(n).tds_mgL, _f(feed.tds_mgL, 0)),
             avg_flux |-> _f(metrics[n].flux_lmh, 0),
             avg_ndp |-> _f(metrics[n].ndp_bar, 0)])))

\* flow and salt closure; is_balanced is |flow error| < 1 % and
\* |salt error| < 5 %
_calc_mass_balance(qf, cf, qp, cp, qb, cb) ==
    LET flow_err == qf - (qp + qb)
        salt_in == qf * cf
        salt_err_g == salt_in - (qp * cp + qb * cb)
        flow_ok == IF qf > 0 THEN Abs(flow_err) * 100 < qf ELSE TRUE
        salt_ok == IF salt_in > 0 THEN Abs(salt_err_g) <= (salt_in - 1) \div 20
                   ELSE TRUE
    IN
    [flow_error_m3h |-> flow_err, salt_error_g |-> salt_err_g,
        is_balanced |-> flow_ok /\ salt_ok]

\* one warning per guideline violation of a stage, in stage order
RECURSIVE _extract_warnings(_, _)
_extract_warnings(metrics, from) ==
    IF from > Len(metrics) THEN {}
    ELSE {[stage |-> metrics[from].stage,
           module_type |-> metrics[from].module_type, key |-> v] :
             v \in metrics[from].violations}
         \cup _extract_warnings(metrics, from + 1)

(***************************************************************************)
(* The requests the engine is run on.                                      *)
(***************************************************************************)
MaxStages == 2

RO15 ==
    [StageConfigDefault("RO") EXCEPT !.pressure_bar = 15000,
                                     !.membrane_area_m2 = 40]

NFdefault == StageConfigDefault("NF")

\* a loose nanofiltration membrane: 50 percent salt rejection
NFloose == [NFdefault EXCEPT !.membrane_salt_rejection_pct = 5000]

\* nanofiltration run at 40 bar
NF40 == [NFdefault EXCEPT !.pressure_bar = 40000]

UFdefault == StageConfigDefault("UF")

MFdefault == StageConfigDefault("MF")

HRROexcel == StageConfigDefault("HRRO")

HRROexcelFull == [HRROexcel EXCEPT !.ccro_recovery_pct = 100]

HRROexcelFlux == [HRROexcel EXCEPT !.flux_lmh = 20000]

HRROphysics == [HRROexcel EXCEPT !.hrro_engine = "excel_physics"]

HRROphysicsFlux == [HRROphysics EXCEPT !.flux_lmh = 20000]

HRROphysicsFluxHigh == [HRROphysics EXCEPT !.flux_lmh = 60000]

StageConfigs ==
    {RO15, NFdefault, NFloose, UFdefault, MFdefault, HRROexcelFull, HRROexcelFlux,
     HRROphysics, HRROphysicsFlux, HRROphysicsFluxHigh}

Feeds ==
    {FeedInput(10000, 2000, 25, 7, 0, "None", "None", None, None, None),
     FeedInput(10000, 5000, 15, 8, 0, "Brackish", "None", 2, 1, 3),
     FeedInput(100, 2000, 25, 7, 0, "Surface", "None", None, None, None)}

StageLists == UNION {[1..n -> StageConfigs] : n \in 0..MaxStages}

NoFeed == FeedInput(0, 0, 0, 0, 0, "None", "None", None, None, None)

NoResult ==
    [returned |-> FALSE, prod_flow |-> 0, prod_tds |-> 0, avg_flux |-> 0,
     avg_ndp |-> 0, recovery_pct |-> 0, brine_flow |-> 0, brine_tds |-> 0,
     is_balanced |-> TRUE, warnings |-> {}]

(***************************************************************************)
(* SimulationEngine.run as a state machine.  fed records the feed handed  *)
(* to each stage, in stage order.                                         *)
(***************************************************************************)
VARIABLES request, pc, idx, current_feed, stage_metrics, stage_types,
          resolved_streams, fed, total_power_kw, result, search, solver,
          chem, guide, hrro, report, caller, modules, runs

vars == <<request, pc, idx, current_feed, stage_metrics, stage_types,
          resolved_streams, fed, total_power_kw, result, search, solver,
          chem, guide, hrro, report, caller, modules, runs>>

\* the variables of one run() on its own
engine_vars == <<request, pc, idx, current_feed, stage_metrics, stage_types,
                 resolved_streams, fed, total_power_kw, result>>

\* no search in progress
NoSearch ==
    [phase |-> "idle", kw |-> None, p_limit |-> 0, tol_lmh |-> 0,
     max_iter |-> 0, s |-> None]

\* no stage solver, chemistry call or guideline call in progress
NoSolver == [phase |-> "idle"]

NoChem ==
    [phase |-> "idle", op |-> "none", profile |-> [tds_mgL |-> 0],
     arg |-> [tds_mgL |-> 0], out |-> [tds_mgL |-> 0], calls |-> 0]

NoGuide ==
    [phase |-> "idle", profile |-> "municipal Supply", inch |-> 8,
     checks |-> NoChecks,
     guideline_used |-> guideline_used("municipal Supply", 8),
     violations |-> {}]

\* no HRRO stage computed on its own
NoHrro == [phase |-> "idle"]

\* the report service before any request: no row, no task
NoReport ==
    [phase |-> "idle",
     env |-> [e2e |-> FALSE, server_pdf |-> FALSE, fast_report |-> FALSE,
              REDIS_AVAILABLE |-> FALSE, use_rq |-> FALSE,
              allow_rq |-> FALSE, worker_fast_report |-> FALSE],
     status |-> "none", queue |-> "none", task |-> "none",
     outcome |-> "none", attempts |-> 0, observed |-> "none"]

\* no request handed to run by a caller
NoCaller == [phase |-> "idle"]

\* self.modules as __init__ builds it: one handler per module type
SimulationEngine_modules == [t \in ModuleType |-> t]

\* no concurrent run started
NoRuns == <<>>

Init ==
    /\ request = [feed |-> NoFeed, stages |-> <<>>]
    /\ pc = "idle"
    /\ idx = 0
    /\ current_feed = NoFeed
    /\ stage_metrics = <<>>
    /\ stage_types = <<>>
    /\ resolved_streams = <<>>
    /\ fed = <<>>
    /\ total_power_kw = 0
    /\ result = NoResult
    /\ search = NoSearch
    /\ solver = NoSolver
    /\ chem = NoChem
    /\ guide = NoGuide
    /\ hrro = NoHrro
    /\ report = NoReport
    /\ caller = NoCaller
    /\ modules = SimulationEngine_modules
    /\ runs = NoRuns

\* run() is entered with a request: engine.py lines 214 to 258
run_begin ==
    /\ pc = "idle"
    /\ \E feed \in Feeds, stages \in StageLists :
          /\ request' = [feed |-> feed, stages |-> stages]
          /\ current_feed' = feed
    /\ pc' = "loop"
    /\ idx' = 0
    /\ stage_metrics' = <<>>
    /\ stage_types' = <<>>
    /\ resolved_streams' = <<>>
    /\ fed' = <<>>
    /\ total_power_kw' = 0
    /\ UNCHANGED <<result, search, solver, chem, guide, hrro, report, caller, modules, runs>>

\* one pass of the stage loop: engine.py lines 260 to 300
run_stage ==
    /\ pc = "loop"
    /\ idx < Len(request.stages)
    /\ LET stage_conf == request.stages[idx + 1]
           module_type == IF stage_conf.module_type \in ModuleType
                          THEN stage_conf.module_type ELSE "RO"
       IN \E metric \in {stage_numbered(compute(module_type, stage_conf,
                                                current_feed), idx + 1)} :
          \E cache \in {resolve_streams(metric)} :
          /\ stage_metrics' = Append(stage_metrics, metric)
          /\ stage_types' = Append(stage_types, module_type)
          /\ total_power_kw' = total_power_kw
                                 + _calc_power(_f(metric.Qf, 0),
                                               _f(metric.p_in_bar, 0))
          /\ resolved_streams' = Append(resolved_streams, cache)
          /\ fed' = Append(fed, current_feed)
          /\ current_feed' = next_feed(module_type, cache, current_feed)
    /\ idx' = idx + 1
    /\ UNCHANGED <<request, pc, result, search, solver, chem, guide, hrro, report, caller, modules, runs>>

\* a request without stages returns the empty scenario: engine.py lines
\* 217 to 231
run_empty ==
    /\ pc = "loop"
    /\ Len(request.stages) = 0
    /\ result' = [NoResult EXCEPT !.returned = TRUE]
    /\ pc' = "done"
    /\ UNCHANGED <<request, idx, current_feed, stage_metrics, stage_types,
                   resolved_streams, fed, total_power_kw, search,
                   solver, chem, guide, hrro, report, caller, modules, runs>>

\* the aggregates, the balance and the warnings: engine.py lines 305 to 397
run_finish ==
    /\ pc = "loop"
    /\ Len(request.stages) > 0
    /\ idx = Len(request.stages)
    /\ LET feed_flow == _f(request.feed.flow_m3h, 0)
           feed_tds == _f(request.feed.tds_mgL, 0)
           agg == _aggregate_system_product(stage_types, stage_metrics,
                                            resolved_streams, request.feed)
           n == Len(stage_types)
           br_s == stream_of(resolved_streams[n],
                             BRINE_STREAM_KIND(stage_types[n]))
           brine_flow == _f(br_s.flow_m3h, 0)
           brine_tds == _f(br_s.tds_mgL, _f(current_feed.tds_mgL, 0))
           mass_balance == _calc_mass_balance(feed_flow, feed_tds,
                               agg.prod_flow, agg.prod_tds, brine_flow,
                               brine_tds)
       IN result' = [returned |-> TRUE, prod_flow |-> agg.prod_flow,
                     prod_tds |-> agg.prod_tds, avg_flux |-> agg.avg_flux,
                     avg_ndp |-> agg.avg_ndp,
                     recovery_pct |-> IF feed_flow > 0
                                      THEN MulDiv(agg.prod_flow, 100000,
                                                  feed_flow)
                                      ELSE 0,
                     brine_flow |-> brine_flow, brine_tds |-> brine_tds,
                     is_balanced |-> mass_balance.is_balanced,
                     warnings |-> _extract_warnings(stage_metrics, 1)]
    /\ pc' = "done"
    /\ UNCHANGED <<request, idx, current_feed, stage_metrics, stage_types,
                   resolved_streams, fed, total_power_kw, search,
                   solver, chem, guide, hrro, report, caller, modules, runs>>

Next == run_begin \/ run_stage \/ run_empty \/ run_finish

Spec == Init /\ [][Next]_vars

(***************************************************************************)
(* solve_inlet_pressure_for_target_avg_flux called on its own, one         *)
(* evaluation of the axial pass per step.                                  *)
(***************************************************************************)
\* the keyword arguments of tests/modules_test.py lines 231 to 256, with a
\* salt-free feed: concentration polarisation and every correction off
CpOffKwargs ==
    [temp_c |-> 25, A_lmh_bar_base |-> 1000, B_lmh_base |-> 0,
     area_total_m2 |-> 222, nseg |-> 1, dp_total_bar |-> 0,
     q_in_m3h |-> 10000, c_in_mgL |-> 0,
     mt |-> [cp_exp_max |-> 0, cp_rel_tol_ppm |-> 1, cp_abs_tol_lmh |-> 0,
             cp_relax |-> 500, cp_max_iter |-> 10],
     flux_init_lmh |-> 10000, a_mu_exp |-> 0, b_mu_exp |-> 0,
     b_sal_slope |-> 0, compaction_k_per_bar |-> 0,
     k_mt_multiplier |-> 1000, k_mt_min_m_s |-> 0]

SearchKwargs ==
    {CpOffKwargs,
     HRRO_axial_kwargs(HRROphysics,
        FeedInput(10000, 2000, 25, 7, 0, "None", "None", None, None, None))}

SearchTargets == {0, 1000, 20000, 300000}

SearchLimits == {HRRO_default_p_limit, 64000}

SearchMaxIters == {1, 2, HRRO_search_max_iter}

\* the call: lines 1010 to 1027
search_call ==
    /\ search.phase = "idle"
    /\ \E kw \in SearchKwargs, target \in SearchTargets,
          p_limit \in SearchLimits, max_iter \in SearchMaxIters :
          search' = [phase |-> "loop", kw |-> kw, p_limit |-> p_limit,
                     tol_lmh |-> HRRO_search_tol, max_iter |-> max_iter,
                     s |-> search_begin(target, p_limit, kw)]
    /\ UNCHANGED <<request, pc, idx, current_feed, stage_metrics, stage_types,
                   resolved_streams, fed, total_power_kw, result, solver, chem, guide, hrro, report, caller, modules, runs>>

\* one trip of the loop, or the fall-through after the last one: lines 1029
\* to 1046
search_iterate ==
    /\ search.phase = "loop"
    /\ ~search.s.done
    /\ search' = [search EXCEPT !.s = search_step(search.s, search.kw,
                                                  search.tol_lmh,
                                                  search.max_iter)]
    /\ UNCHANGED <<request, pc, idx, current_feed, stage_metrics, stage_types,
                   resolved_streams, fed, total_power_kw, result, solver, chem, guide, hrro, report, caller, modules, runs>>

\* the return of the pressure found
search_return ==
    /\ search.phase = "loop"
    /\ search.s.done
    /\ search' = [search EXCEPT !.phase = "returned"]
    /\ UNCHANGED <<request, pc, idx, current_feed, stage_metrics, stage_types,
                   resolved_streams, fed, total_power_kw, result, solver, chem, guide, hrro, report, caller, modules, runs>>

NextSearch == search_call \/ search_iterate \/ search_return

SpecSearch == Init /\ [][NextSearch]_vars

(***************************************************************************)
(* The loops of the stage modules, one trip per step.  solver holds the   *)
(* frame of the loop in progress: its kind, its arguments, the number of  *)
(* trips range() was given (bound), the trips made (iter), the loop's own *)
(* state (s) and, for RO and NF, the polarisation factor the last trip    *)
(* applied (cp).                                                          *)
(***************************************************************************)
\* the frame fields of a function that takes no stage (config), has entered
\* no loop (s) or has not returned yet (out)
NoFrame ==
    [config |-> [module_type |-> "none"], s |-> [entered |-> FALSE],
     out |-> [returned |-> FALSE]]

\* RO at four pressures, with a pump of 50 percent efficiency and without a
\* pressure of its own (the feed arrives at the pressure of the stage before);
\* NF at its default, with a loose membrane, at 40 bar and with the 50 percent
\* pump
SolverConfigs ==
    {[RO15 EXCEPT !.pressure_bar = 10000], RO15,
     [RO15 EXCEPT !.pressure_bar = 74000],
     [RO15 EXCEPT !.pressure_bar = 76000], [RO15 EXCEPT !.pump_eff = 500],
     [RO15 EXCEPT !.pressure_bar = None], NFdefault, NFloose, NF40,
     [NFdefault EXCEPT !.pump_eff = 500]}

\* the pressures the RO stage is compared at
SolverPressures == {10000, 15000, 74000, 76000}

SolverFeeds ==
    {FeedInput(10000, 2000, 25, 7, 0, "None", "None", None, None, None),
     FeedInput(10000, 35000, 25, 7, 0, "Seawater", "None", None, None, None),
     FeedInput(10000, 2000, 25, 7, 2000, "None", "None", None, None, None),
     FeedInput(10000, 2000, 25, 7, 16000, "None", "None", None, None, None),
     FeedInput(0, 2000, 25, 7, 0, "None", "None", None, None, None)}

\* ROModule.compute up to its loop: lines 37 to 170.  A stage without feed
\* or permeability returns before the loop.
RO_begin(config, feed) ==
    With(RO_inputs(config, feed), LAMBDA k :
    IF k.Qf <= 0 \/ k.A <= 0
    THEN [phase |-> "returned", loop |-> "ro", config |-> config,
          feed |-> feed, k |-> k, bound |-> 0, iter |-> 0, s |-> NoFrame.s,
          cp |-> None,
          out |-> [metric |-> ROModule_compute(config, feed), power_kw |-> 0,
                   sec_kwhm3 |-> 0, capped |-> FALSE, converged |-> FALSE]]
    ELSE [phase |-> "loop", loop |-> "ro", config |-> config, feed |-> feed,
          k |-> k, bound |-> RO_max_iter, iter |-> 0,
          s |-> [avg |-> Max(0, (k.Cf * 12) \div 10), done |-> FALSE],
          cp |-> None, out |-> NoFrame.out])

\* NFModule.compute up to its loop: lines 24 to 61
NF_begin(config, feed) ==
    With(NF_inputs(config, feed), LAMBDA k :
    [phase |-> "loop", loop |-> "nf", config |-> config, feed |-> feed,
        k |-> k, bound |-> NF_max_iter, iter |-> 0,
        s |-> [avg |-> Max(0, (k.Cf * 11) \div 10),
               r |-> [flux_lmh |-> 0, ndp |-> 0, cp_factor |-> None,
                      Cp |-> 0, Qp |-> None, Cc |-> k.Cf, capped |-> FALSE,
                      new_avg |-> None],
               done |-> FALSE],
        cp |-> None, out |-> NoFrame.out])

\* solve_local_flux_constant_pressure up to its loop: lines 797 to 812.  A
\* membrane without permeability returns before the loop.
local_flux_begin(a) ==
    IF Max(0, a.A_lmh_bar) <= 0
    THEN [phase |-> "returned", loop |-> "local_flux", config |-> NoFrame.config,
          feed |-> NoFeed, k |-> a, bound |-> 0, iter |-> 0, s |-> NoFrame.s,
          cp |-> None,
          out |-> solve_local_flux_constant_pressure(a.A_lmh_bar,
                      a.p_seg_bar, a.pi_bulk_bar, a.k_mt, a.mt,
                      a.flux_init_lmh)]
    ELSE [phase |-> "loop", loop |-> "local_flux", config |-> NoFrame.config,
          feed |-> NoFeed,
          k |-> [a EXCEPT !.p_seg_bar = Max(0, a.p_seg_bar),
                          !.pi_bulk_bar = Max(0, a.pi_bulk_bar)],
          bound |-> Max(1, a.mt.cp_max_iter), iter |-> 0,
          s |-> [flux |-> Max(0, a.flux_init_lmh),
                 e |-> [flux |-> None, ndp |-> None, beta |-> None,
                        pi_wall |-> None],
                 done |-> FALSE],
          cp |-> None, out |-> NoFrame.out]

\* solve_inlet_pressure_for_target_avg_flux up to its loop: lines 1010 to
\* 1027.  A target outside the bracket returns before the loop.
bisection_begin(a) ==
    With(search_begin(a.target_flux_lmh, a.p_limit_bar, a.kw), LAMBDA s0 :
    IF s0.done
    THEN [phase |-> "returned", loop |-> "bisection", config |-> NoFrame.config,
          feed |-> NoFeed, k |-> a, bound |-> 0, iter |-> 0, s |-> s0,
          cp |-> None, out |-> [p |-> s0.p]]
    ELSE [phase |-> "loop", loop |-> "bisection", config |-> NoFrame.config,
          feed |-> NoFeed, k |-> a, bound |-> Max(1, a.max_iter), iter |-> 0,
          s |-> s0, cp |-> None, out |-> NoFrame.out])

\* run_axial_stage up to its loop: lines 870 to 899
axial_begin(a) ==
    [phase |-> "loop", loop |-> "axial", config |-> NoFrame.config, feed |-> NoFeed,
     k |-> a, bound |-> Max(1, a.kw.nseg), iter |-> 0,
     s |-> axial_init(a.kw, a.p_in_bar), cp |-> None, out |-> NoFrame.out]

\* build_hrro_batch_cycle_history up to its loop: lines 1130 to 1157
history_frame(a) ==
    With(history_begin(a.config, a.qf_total, a.rec_pct_final, a.cf0_mgL,
                       a.total_area_m2, a.temp_c, a.A_lmh_bar, a.B_lmh,
                       a.pump_eff), LAMBDA h :
    [phase |-> "loop", loop |-> "history", config |-> a.config,
        feed |-> NoFeed, k |-> h, bound |-> h.n, iter |-> 0,
        s |-> [pts |-> <<>>],
        cp |-> None, out |-> NoFrame.out])

\* whether the loop of a frame has left through a break or a return
solver_broken(f) ==
    f.loop \in {"ro", "nf", "local_flux", "bisection"} /\ f.s.done

\* the body of the loop of a frame, run once
solver_body(f) ==
    CASE f.loop = "ro" ->
           [f EXCEPT !.s = RO_step(f.k, f.s),
                     !.cp = RO_pass(f.k, f.s.avg).cp_factor]
      [] f.loop = "nf" ->
           With(NF_step(f.k, f.s), LAMBDA s2 :
           [f EXCEPT !.s = s2, !.cp = s2.r.cp_factor])
      [] f.loop = "local_flux" ->
           [f EXCEPT !.s = local_flux_step(f.k.A_lmh_bar, f.k.p_seg_bar,
                               f.k.pi_bulk_bar, f.k.k_mt, f.k.mt, f.s)]
      [] f.loop = "bisection" ->
           [f EXCEPT !.s = search_step(f.s, f.k.kw, f.k.tol_lmh,
                                       f.k.max_iter)]
      [] f.loop = "axial" ->
           [f EXCEPT !.s = axial_segment(f.k.kw, f.s, f.iter)]
      [] f.loop = "history" ->
           [f EXCEPT !.s = [pts |-> Append(f.s.pts,
                                           history_point(f.k, f.iter))]]

\* one trip of the loop of a frame: range() hands out the next index and the
\* body runs
solver_trip(f) == [solver_body(f) EXCEPT !.iter = f.iter + 1]

\* what the module does with the state its loop ended on
solver_finish(f) ==
    CASE f.loop = "ro" ->
           With(RO_pass(f.k, f.s.avg), LAMBDA r :
           With(RO_energy(f.config, f.feed, f.k, r.Qp), LAMBDA e :
           [metric |-> RO_result(f.k, f.s.avg), power_kw |-> e.power_kw,
               sec_kwhm3 |-> e.sec_kwhm3, capped |-> r.capped,
               converged |-> f.s.done]))
      [] f.loop = "nf" ->
           With(NF_energy(f.config, f.k, f.s.r.Qp), LAMBDA e :
           [metric |-> NF_result(f.k, f.s.r), power_kw |-> e.power_kw,
               sec_kwhm3 |-> e.sec_kwhm3, capped |-> f.s.r.capped,
               converged |-> f.s.done])
      [] f.loop = "local_flux" ->
           IF f.s.done THEN f.s.e
           ELSE [local_flux_eval(f.k.A_lmh_bar, f.k.p_seg_bar,
                                 f.k.pi_bulk_bar, f.k.k_mt,
                                 Max(0, f.k.mt.cp_exp_max), f.s.flux)
                     EXCEPT !.flux = f.s.flux]
      [] f.loop = "bisection" ->
           [p |-> IF f.s.done THEN f.s.p ELSE f.s.best_p]
      [] f.loop = "axial" -> axial_result(f.k.kw, f.s)
      [] f.loop = "history" -> [history |-> f.s.pts]

LocalFluxArgs ==
    [A_lmh_bar : {0, 3000}, p_seg_bar : {15000, 30000},
     pi_bulk_bar : {1500, 20000}, k_mt : {5000, 30000},
     mt : {StageConfigDefault("HRRO").mass_transfer,
           [StageConfigDefault("HRRO").mass_transfer
               EXCEPT !.cp_max_iter = 1],
           [StageConfigDefault("HRRO").mass_transfer
               EXCEPT !.cp_max_iter = 0, !.cp_relax = 950],
           [StageConfigDefault("HRRO").mass_transfer
               EXCEPT !.cp_max_iter = 3, !.cp_rel_tol_ppm = 0,
                      !.cp_abs_tol_lmh = 0]},
     flux_init_lmh : {0, 20000}]

BisectionArgs ==
    [kw : SearchKwargs, target_flux_lmh : {1000, 20000, 300000},
     p_limit_bar : {HRRO_default_p_limit}, tol_lmh : {HRRO_search_tol},
     max_iter : {0, 2, HRRO_search_max_iter}]

AxialArgs ==
    [kw : SearchKwargs
          \cup {[kw EXCEPT !.nseg = 3, !.dp_total_bar = 600] :
                  kw \in SearchKwargs},
     p_in_bar : {0, 15000, 30000}]

HistoryArgs ==
    [config : {HRROexcel,
               [HRROexcel EXCEPT !.timestep_s = 60, !.max_minutes = 5],
               [HRROexcel EXCEPT !.timestep_s = 600, !.max_minutes = 0],
               [HRROexcel EXCEPT !.timestep_s = 0, !.max_minutes = 2]},
     qf_total : {10000}, rec_pct_final : {0, 50000, 120000},
     cf0_mgL : {2000}, total_area_m2 : {240}, temp_c : {25},
     A_lmh_bar : {3000}, B_lmh : {100}, pump_eff : {800}]

\* a stage module or one of the solvers of hrro.py is called
solver_call ==
    /\ solver.phase = "idle"
    /\ \/ \E config \in SolverConfigs, feed \in SolverFeeds :
             solver' = CASE config.module_type = "RO" ->
                              RO_begin(config, feed)
                         [] config.module_type = "NF" ->
                              NF_begin(config, feed)
       \/ \E a \in LocalFluxArgs : solver' = local_flux_begin(a)
       \/ \E a \in BisectionArgs : solver' = bisection_begin(a)
       \/ \E a \in AxialArgs : solver' = axial_begin(a)
       \/ \E a \in HistoryArgs : solver' = history_frame(a)
    /\ UNCHANGED <<engine_vars, search, chem, guide, hrro, report, caller, modules, runs>>

\* one trip of the loop in progress
solver_iterate ==
    /\ solver.phase = "loop"
    /\ solver.iter < solver.bound
    /\ ~solver_broken(solver)
    /\ solver' = solver_trip(solver)
    /\ UNCHANGED <<engine_vars, search, chem, guide, hrro, report, caller, modules, runs>>

\* the loop is left, through its break or after its last trip, and the
\* function returns
solver_return ==
    /\ solver.phase = "loop"
    /\ solver_broken(solver) \/ solver.iter >= solver.bound
    /\ solver' = [solver EXCEPT !.phase = "returned",
                                !.out = solver_finish(solver)]
    /\ UNCHANGED <<engine_vars, search, chem, guide, hrro, report, caller, modules, runs>>

NextSolver == solver_call \/ solver_iterate \/ solver_return

SpecSolver == Init /\ [][NextSolver]_vars

\* the condition under which solver_iterate can take a step: every trip
\* raises iter, so the action is enabled exactly where its guard holds
solver_iterate_enabled ==
    solver.phase = "loop" /\ solver.iter < solver.bound
    /\ ~solver_broken(solver)

\* a function that has entered a loop keeps executing it: the thread that
\* called it is scheduled again and again until the function returns.  This
\* is weak fairness of solver_iterate, with its enabling condition written
\* out, and of solver_return.
FairSpecSolver ==
    /\ SpecSolver
    /\ []<>(~solver_iterate_enabled) \/ []<><<solver_iterate>>_vars
    /\ WF_vars(solver_return)

(***************************************************************************)
(* Several run() calls on one engine, interleaved stage by stage.  runs   *)
(* holds the locals of every run that has been entered; modules is        *)
(* self.modules, the one object of the engine that every run reads.       *)
(***************************************************************************)
MaxRuns == 2

ConcurrentRequests ==
    [feed : {FeedInput(10000, 2000, 25, 7, 0, "None", "None", None, None,
                       None),
             FeedInput(100, 2000, 25, 7, 0, "Surface", "None", None, None,
                       None)},
     stages : {<<>>, <<RO15>>, <<NFdefault, RO15>>, <<UFdefault, NFloose>>}]

\* a dispatch that keeps the handler it found for every later lookup
modules_last_handler(table, module_type) ==
    [t \in DOMAIN table |-> IF module_type \in DOMAIN table
                            THEN table[module_type] ELSE table["RO"]]

\* self.modules after handler = self.modules.get(module_type) and the
\* fallback self.modules[ModuleType.RO]: both only read it
modules_after_dispatch(table, module_type) == table

\* the locals of run() when it reaches its stage loop: lines 214 to 258
run_locals(req) ==
    [pc |-> "loop", request |-> req, idx |-> 0, current_feed |-> req.feed,
     stage_metrics |-> <<>>, stage_types |-> <<>>, resolved_streams |-> <<>>,
     total_power_kw |-> 0, result |-> NoResult]

\* one pass of the stage loop of a run on its locals, with the dispatch
\* table as the run finds it: lines 260 to 300
run_pass(table, r) ==
    LET stage_conf == r.request.stages[r.idx + 1]
        known == stage_conf.module_type \in DOMAIN table
        module_type == IF known THEN stage_conf.module_type ELSE "RO"
        handler == table[module_type]
    IN
    With(stage_numbered(compute(handler, stage_conf, r.current_feed),
                        r.idx + 1), LAMBDA metric :
    With(resolve_streams(metric), LAMBDA cache :
    [r EXCEPT !.stage_metrics = Append(r.stage_metrics, metric),
              !.stage_types = Append(r.stage_types, module_type),
              !.total_power_kw = r.total_power_kw
                                   + _calc_power(_f(metric.Qf, 0),
                                                 _f(metric.p_in_bar, 0)),
              !.resolved_streams = Append(r.resolved_streams, cache),
              !.current_feed = next_feed(module_type, cache, r.current_feed),
              !.idx = r.idx + 1]))

\* the return of a run: the empty scenario of lines 217 to 231 or the
\* aggregates of lines 305 to 397
run_result(r) ==
    IF Len(r.request.stages) = 0 THEN [NoResult EXCEPT !.returned = TRUE]
    ELSE
    LET feed_flow == _f(r.request.feed.flow_m3h, 0)
        feed_tds == _f(r.request.feed.tds_mgL, 0)
        n == Len(r.stage_types)
    IN
    With(_aggregate_system_product(r.stage_types, r.stage_metrics,
                                   r.resolved_streams, r.request.feed),
         LAMBDA agg :
    With(stream_of(r.resolved_streams[n], BRINE_STREAM_KIND(r.stage_types[n])),
         LAMBDA br_s :
    LET brine_flow == _f(br_s.flow_m3h, 0)
        brine_tds == _f(br_s.tds_mgL, _f(r.current_feed.tds_mgL, 0))
    IN
    [returned |-> TRUE, prod_flow |-> agg.prod_flow,
        prod_tds |-> agg.prod_tds, avg_flux |-> agg.avg_flux,
        avg_ndp |-> agg.avg_ndp,
        recovery_pct |-> IF feed_flow > 0
                         THEN MulDiv(agg.prod_flow, 100000, feed_flow)
                         ELSE 0,
        brine_flow |-> brine_flow, brine_tds |-> brine_tds,
        is_balanced |-> _calc_mass_balance(feed_flow, feed_tds,
                            agg.prod_flow, agg.prod_tds, brine_flow,
                            brine_tds).is_balanced,
        warnings |-> _extract_warnings(r.stage_metrics, 1)]))

\* a run on an engine of its own, from its locals to its return
RECURSIVE run_alone(_)
run_alone(r) ==
    IF r.idx < Len(r.request.stages)
    THEN With(run_pass(SimulationEngine_modules, r), LAMBDA r2 :
         run_alone(r2))
    ELSE [r EXCEPT !.pc = "done", !.result = run_result(r)]

\* a thread enters run() with a request of its own
thread_begin ==
    /\ Len(runs) < MaxRuns
    /\ \E req \in ConcurrentRequests : runs' = Append(runs, run_locals(req))
    /\ UNCHANGED <<engine_vars, search, solver, chem, guide, hrro, report, caller, modules>>

\* a thread makes one pass of its stage loop
thread_stage ==
    /\ \E t \in DOMAIN runs :
          /\ runs[t].pc = "loop"
          /\ runs[t].idx < Len(runs[t].request.stages)
          /\ \E r2 \in {run_pass(modules, runs[t])} :
                runs' = [runs EXCEPT ![t] = r2]
          /\ modules' = modules_after_dispatch(modules,
                            runs[t].request.stages[runs[t].idx + 1]
                                .module_type)
    /\ UNCHANGED <<engine_vars, search, solver, chem, guide, hrro, report, caller>>

\* a thread returns from run()
thread_finish ==
    /\ \E t \in DOMAIN runs :
          /\ runs[t].pc = "loop"
          /\ runs[t].idx = Len(runs[t].request.stages)
          /\ \E res \in {run_result(runs[t])} :
                runs' = [runs EXCEPT ![t] = [@ EXCEPT !.pc = "done",
                                                      !.result = res]]
    /\ UNCHANGED <<engine_vars, search, solver, chem, guide, hrro, report, caller, modules>>

NextConcurrent == thread_begin \/ thread_stage \/ thread_finish

SpecConcurrent == Init /\ [][NextConcurrent]_vars

(***************************************************************************)
(* The water chemistry engine: services/water_chemistry.py.               *)
(* Concentrations and TDS are in 1/1000 mg/L, molar weights in 1/1000     *)
(* g/mol, charge equivalents in 1e-5 meq/L.                               *)
(***************************************************************************)
\* molar weight and valence of the charged species, and the side of the
\* balance each is summed on
ION_TABLE ==
    [na_mgL   |-> [mw |-> 22990,  val |-> 1, side |-> "cation"],
     k_mgL    |-> [mw |-> 39098,  val |-> 1, side |-> "cation"],
     ca_mgL   |-> [mw |-> 40078,  val |-> 2, side |-> "cation"],
     mg_mgL   |-> [mw |-> 24305,  val |-> 2, side |-> "cation"],
     nh4_mgL  |-> [mw |-> 18039,  val |-> 1, side |-> "cation"],
     sr_mgL   |-> [mw |-> 87620,  val |-> 2, side |-> "cation"],
     ba_mgL   |-> [mw |-> 137327, val |-> 2, side |-> "cation"],
     fe_mgL   |-> [mw |-> 55845,  val |-> 2, side |-> "cation"],
     mn_mgL   |-> [mw |-> 54938,  val |-> 2, side |-> "cation"],
     al_mgL   |-> [mw |-> 26982,  val |-> 3, side |-> "cation"],
     cl_mgL   |-> [mw |-> 35453,  val |-> 1, side |-> "anion"],
     so4_mgL  |-> [mw |-> 96061,  val |-> 2, side |-> "anion"],
     hco3_mgL |-> [mw |-> 61016,  val |-> 1, side |-> "anion"],
     no3_mgL  |-> [mw |-> 62004,  val |-> 1, side |-> "anion"],
     f_mgL    |-> [mw |-> 18998,  val |-> 1, side |-> "anion"],
     br_mgL   |-> [mw |-> 79904,  val |-> 1, side |-> "anion"],
     po4_mgL  |-> [mw |-> 94970,  val |-> 3, side |-> "anion"],
     co3_mgL  |-> [mw |-> 60008,  val |-> 2, side |-> "anion"]]

\* a profile as the dataclass builds it: the species not given are 0.0 and
\* the two legacy aggregates None
ChemistryProfile(tds_mgL, given) ==
    [tds_mgL |-> tds_mgL, temperature_C |-> 25, ph |-> 7,
     ions |-> [s \in DOMAIN ION_TABLE \cup {"sio2_mgL", "b_mgL", "co2_mgL",
                      "alkalinity_mgL_as_CaCO3",
                      "calcium_hardness_mgL_as_CaCO3"} |->
                  IF s \in DOMAIN given THEN given[s]
                  ELSE IF s \in {"alkalinity_mgL_as_CaCO3",
                                 "calcium_hardness_mgL_as_CaCO3"}
                       THEN None ELSE 0]]

\* the charge equivalents of one species; None, 0 and negatives count 0
_get_meq(mgL, mw, valence) ==
    IF mgL = None \/ mgL <= 0 THEN 0
    ELSE MulDiv(mgL * valence * 10, 10000, mw)

\* the cation sum and the anion sum of a profile
calculate_ion_balance(profile) ==
    LET meq(s) == _get_meq(profile.ions[s], ION_TABLE[s].mw, ION_TABLE[s].val)
    IN [cations_meq |-> meq("na_mgL") + meq("k_mgL") + meq("ca_mgL")
                        + meq("mg_mgL") + meq("nh4_mgL") + meq("sr_mgL")
                        + meq("ba_mgL") + meq("fe_mgL") + meq("mn_mgL")
                        + meq("al_mgL"),
        anions_meq |-> meq("cl_mgL") + meq("so4_mgL") + meq("hco3_mgL")
                       + meq("no3_mgL") + meq("f_mgL") + meq("br_mgL")
                       + meq("po4_mgL") + meq("co3_mgL")]

\* every species times new_tds / max(tds, 1e-6); a None stays None.  A TDS
\* of 0 or less is replaced by 1e-6 mg/L, 1/1000 of the unit used here
scale_profile_for_tds(base, new_tds_mgL) ==
    LET _scale(v) ==
            IF v = None THEN None
            ELSE IF base.tds_mgL >= 1 THEN MulDiv(new_tds_mgL, v, base.tds_mgL)
            ELSE new_tds_mgL * 1000 * v
    IN [base EXCEPT !.tds_mgL = new_tds_mgL,
                    !.ions = [s \in DOMAIN base.ions |-> _scale(base.ions[s])]]

\* the mass of diff_meq equivalents of a species of valence 1
makeup_mgL(diff_meq, mw) == MulDiv(diff_meq, mw, 1000) \div 100

\* the balance correction: the profile itself when the two sums differ by
\* less than 1e-4 meq/L or are both zero, else a copy with chloride or
\* sodium added
apply_balance_makeup(profile) ==
    LET b == calculate_ion_balance(profile)
        new_profile == scale_profile_for_tds(profile, profile.tds_mgL)
        _or0(v) == IF v = None THEN 0 ELSE v
    IN IF Abs(b.cations_meq - b.anions_meq) < 10
          \/ (b.cations_meq = 0 /\ b.anions_meq = 0)
       THEN profile
       ELSE IF b.cations_meq > b.anions_meq
       THEN LET added_cl_mgL == makeup_mgL(b.cations_meq - b.anions_meq,
                                           ION_TABLE.cl_mgL.mw)
            IN [new_profile EXCEPT
                   !.ions.cl_mgL = _or0(new_profile.ions.cl_mgL) + added_cl_mgL,
                   !.tds_mgL = new_profile.tds_mgL + added_cl_mgL]
       ELSE LET added_na_mgL == makeup_mgL(b.anions_meq - b.cations_meq,
                                           ION_TABLE.na_mgL.mw)
            IN [new_profile EXCEPT
                   !.ions.na_mgL = _or0(new_profile.ions.na_mgL) + added_na_mgL,
                   !.tds_mgL = new_profile.tds_mgL + added_na_mgL]

\* the profiles handed to the engine: a TDS of 0 (the default of the feed
\* schema), 500 or 1000 mg/L with sodium, chloride, calcium and sulphate
\* given or left out
ChemProfiles ==
    {ChemistryProfile(tds, [na_mgL |-> na, cl_mgL |-> cl, ca_mgL |-> ca,
                            so4_mgL |-> so4]) :
        tds \in {0, 500000, 1000000}, na \in {0, 100000},
        cl \in {None, 0, 50000, 154210}, ca \in {0, 40000},
        so4 \in {0, 96061}}

\* a caller holds a profile
chem_profile ==
    /\ chem.phase = "idle"
    /\ \E p \in ChemProfiles :
          chem' = [phase |-> "held", op |-> "none", profile |-> p,
                   arg |-> p, out |-> p, calls |-> 0]
    /\ UNCHANGED <<engine_vars, search, solver, guide, hrro, report, caller,
                 modules, runs>>

\* apply_balance_makeup is called on the profile, or on what the call
\* before it returned
chem_balance ==
    /\ chem.phase = "held"
    /\ chem.op \in {"none", "balance"}
    /\ chem.calls < 2
    /\ \E r \in {apply_balance_makeup(chem.out)} :
          chem' = [chem EXCEPT !.op = "balance", !.arg = chem.out,
                               !.out = r, !.calls = chem.calls + 1]
    /\ UNCHANGED <<engine_vars, search, solver, guide, hrro, report, caller,
                 modules, runs>>

\* scale_profile_for_tds is called on the profile, with its own TDS, twice
\* its TDS or 0 as the new TDS
chem_scale ==
    /\ chem.phase = "held"
    /\ chem.op = "none"
    /\ \E t \in {chem.profile.tds_mgL, 2 * chem.profile.tds_mgL, 0} :
       \E r \in {scale_profile_for_tds(chem.profile, t)} :
          chem' = [chem EXCEPT !.op = "scale", !.out = r, !.calls = 1]
    /\ UNCHANGED <<engine_vars, search, solver, guide, hrro, report, caller,
                 modules, runs>>

NextChem == chem_profile \/ chem_balance \/ chem_scale

SpecChem == Init /\ [][NextChem]_vars

(***************************************************************************)
(* Calls of build_guideline_violations.                                    *)
(***************************************************************************)
\* the values a caller passes for the eight checks: the keys in S at the
\* level lvl, the others absent.  Level 1 lies under every limit of the
\* table, level 3 over every limit, level 2 between the limits of the
\* profiles (the municipal 8 inch maxima exactly where one is a round
\* figure), and level 4 alternates levels 3 and 1
GuidelineChecks ==
    LET keys == DOMAIN NoChecks
        at == [avg_flux_lmh |-> <<5000, 22000, 50000, 50000>>,
               lead_flux_lmh |-> <<20000, 31000, 60000, 20000>>,
               conc_flow_m3h_per_vessel |-> <<300, 3500, 5000, 300>>,
               feed_flow_m3h_per_vessel |-> <<2000, 15000, 20000, 20000>>,
               dp_bar_per_vessel |-> <<1000, 2500, 4000, 1000>>,
               element_recovery_pct |-> <<10000, 16000, 40000, 40000>>,
               beta_max |-> <<1100, 1250, 1500, 1100>>,
               flux_decline_ratio_pct |-> <<5000, 12000, 20000, 20000>>]
    IN {[k \in keys |-> IF k \in S THEN at[k][lvl] ELSE None] :
           S \in SUBSET keys, lvl \in 1..4}

\* a caller passes a profile name, an element size and the check values
guideline_call ==
    /\ guide.phase = "idle"
    /\ \E profile \in GuidelineProfileNames \cup {"Unlisted"},
          inch \in {4, 8, 16}, checks \in GuidelineChecks :
          guide' = [phase |-> "called", profile |-> profile, inch |-> inch,
                    checks |-> checks,
                    guideline_used |-> guideline_used("municipal Supply", 8),
                    violations |-> {}]
    /\ UNCHANGED <<engine_vars, search, solver, chem, hrro, report, caller,
                 modules, runs>>

\* the call returns the guideline used and the violations
guideline_return ==
    /\ guide.phase = "called"
    /\ \E v \in {build_guideline_violations(guide.profile, guide.inch,
                                            guide.checks)} :
          guide' = [guide EXCEPT !.phase = "returned",
                       !.guideline_used = guideline_used(guide.profile,
                                                         guide.inch),
                       !.violations = v]
    /\ UNCHANGED <<engine_vars, search, solver, chem, hrro, report, caller,
                 modules, runs>>

NextGuideline == guideline_call \/ guideline_return

SpecGuideline == Init /\ [][NextGuideline]_vars

(***************************************************************************)
(* HRROModule.compute called on one stage.  The recovery a stage reports   *)
(* is in 1/100 percent.                                                    *)
(***************************************************************************)
\* recovery_pct of the returned StageMetric: round(Qp / Qf * 100, 2)
HRRO_recovery_pct(qp_total, qf_total) ==
    IF qf_total > 0 THEN RoundDiv(qp_total * 10000, qf_total) ELSE 0

\* chemistry["design_excel"] of the returned StageMetric.  Both modes build
\* the same three keys; the physics mode leaves excel_only_cp empty
HRRO_design_excel(config, feed) ==
    With(HRRO_inputs(config, feed), LAMBDA i :
    With(compute_excel(i), LAMBDA excel :
    [inputs |-> i,
     ccro |-> [flux_lmh |-> excel.ccro_flux_lmh,
               q_perm_m3h |-> excel.ccro_qp_m3h],
     excel_only_cp |->
         IF config.hrro_engine = "excel_physics" THEN <<>>
         ELSE excel_only_compute_cp_cc(i.cf, i.q_raw_m3h, excel.ccro_qp_m3h,
                  excel.ccro_qc_m3h, config.hrro_excel_only_cp_mode,
                  _f(config.hrro_excel_only_fixed_rejection_pct, 9950),
                  config.hrro_excel_only_min_model_rejection_pct,
                  _f(config.membrane_salt_rejection_pct,
                     HRRO_fallback_rejection))]))

\* HRRO stages in both engine modes, with and without a stop recovery, a
\* target recovery, a closed-circuit recovery, a target flux and a feed flow
\* of their own
HrroConfigs ==
    {[StageConfigDefault("HRRO") EXCEPT
         !.hrro_engine = engine, !.stop_recovery_pct = stop,
         !.recovery_target_pct = target, !.ccro_recovery_pct = ccro,
         !.flux_lmh = flux, !.feed_flow_m3h = feed_flow] :
        engine \in {"excel_only", "excel_physics"}, stop \in {None, 60},
        target \in {None, 60}, ccro \in {None, 90},
        flux \in {None, 20000, 60000}, feed_flow \in {None, 20000}}

\* compute is entered with a stage configuration and a feed
hrro_call ==
    /\ hrro.phase = "idle"
    /\ \E config \in HrroConfigs, feed \in Feeds :
          hrro' = [phase |-> "called", config |-> config, feed |-> feed]
    /\ UNCHANGED <<engine_vars, search, solver, chem, guide, report, caller,
                   modules, runs>>

\* compute returns its StageMetric
hrro_return ==
    /\ hrro.phase = "called"
    /\ \E metric \in {HRROModule_compute(hrro.config, hrro.feed)} :
          hrro' = [phase |-> "returned", config |-> hrro.config,
                   feed |-> hrro.feed, metric |-> metric,
                   recovery_pct |-> HRRO_recovery_pct(metric.Qp, metric.Qf),
                   design_excel |-> HRRO_design_excel(hrro.config,
                                                      hrro.feed)]
    /\ UNCHANGED <<engine_vars, search, solver, chem, guide, report, caller,
                   modules, runs>>

NextHrro == hrro_call \/ hrro_return

SpecHrro == Init /\ [][NextHrro]_vars

(***************************************************************************)
(* The report jobs: POST /reports/enqueue creates a ReportJob row and has  *)
(* the PDF generated in the request itself (E2E fast path), by an RQ       *)
(* worker, or by an in-process background task; GET /reports/{job_id}      *)
(* reads the row.  One job is followed from its creation on.               *)
(***************************************************************************)
\* ReportStatus: the values a ReportJob row's status column can hold
ReportStatus == {"queued", "running", "succeeded", "failed"}

\* the two final values, as _finalize_job and _mark_running test them
ReportStatus_final == {"succeeded", "failed"}

\* _api_status: the database's "running" is shown as "started"
_api_status(db_status) ==
    IF db_status = "running" THEN "started" ELSE db_status

\* _finalize_job that returned without writing
_finalize_job_skipped(job_status, status) == job_status

\* _finalize_job: the status of the row after the call
_finalize_job(job_status, status) ==
    IF job_status \in ReportStatus_final THEN job_status ELSE status

\* _mark_running with no test of the final values
_mark_running_unguarded(job_status) == "running"

\* _mark_running: the status of the row after the call
_mark_running(job_status) ==
    IF job_status \in ReportStatus_final THEN job_status ELSE "running"

\* _is_e2e_payload and the environment variables the request and the worker
\* read: AQUANOVA_SERVER_PDF_ENABLED, AQUANOVA_E2E_FAST_REPORT (in the web
\* process and in the worker process), the import of redis and rq,
\* AQUANOVA_REPORTS_USE_RQ, AQUANOVA_E2E_ALLOW_RQ
ReportEnvs ==
    [e2e : BOOLEAN, server_pdf : BOOLEAN, fast_report : BOOLEAN,
     REDIS_AVAILABLE : BOOLEAN, use_rq : BOOLEAN, allow_rq : BOOLEAN,
     worker_fast_report : BOOLEAN]

\* Retry(max=3, interval=10) of q.enqueue
RetryMax == 3

\* force_inproc of enqueue_report
force_inproc(env) == env.e2e /\ ~env.allow_rq

\* task_generate_report followed by _find_pdf_after_generation, as both
\* runners call them.  A failed import returns a dictionary without touching
\* the row, and the PDF is then looked for on disk.  With the imports done
\* the row is read and ReportStatus.started is evaluated: ReportStatus has
\* no such member, the attribute access raises before the row is written
\* and the exception leaves task_generate_report, whose own handlers start
\* further down.  The outcomes are what the runner finalizes the job with.
task_generate_report(import_ok, found) ==
    IF import_ok THEN "raised"
    ELSE IF found THEN "found" ELSE "missing"

\* the status a runner hands to _finalize_job for an outcome
finalize_status(outcome) ==
    IF outcome = "found" THEN "succeeded" ELSE "failed"

\* enqueue_report up to the creation of the row: an unknown scenario, an
\* invalid one and a disabled server PDF flow raise before any row exists
enqueue_report_create ==
    /\ report.phase = "idle"
    /\ \E env \in ReportEnvs, scenario_ok \in BOOLEAN :
          IF ~scenario_ok \/ (~env.server_pdf /\ ~env.e2e)
          THEN report' = [report EXCEPT !.phase = "raised", !.env = env]
          ELSE report' = [report EXCEPT !.phase = "created", !.env = env,
                                        !.status = "queued",
                                        !.queue = "inproc"]
    /\ UNCHANGED <<engine_vars, search, solver, chem, guide, hrro, caller,
                   modules, runs>>

\* E2E fast path, first commit: the row is set running
enqueue_report_fast_start ==
    /\ report.phase = "created"
    /\ report.env.e2e /\ report.env.fast_report
    /\ report' = [report EXCEPT !.phase = "fast", !.status = "running"]
    /\ UNCHANGED <<engine_vars, search, solver, chem, guide, hrro, caller,
                   modules, runs>>

\* E2E fast path, second commit: the minimal PDF is written and the row set
\* succeeded, or writing raised and the row is set failed
enqueue_report_fast_finish ==
    /\ report.phase = "fast"
    /\ \E written \in BOOLEAN :
          report' = [report EXCEPT
                        !.phase = IF written THEN "returned" ELSE "raised",
                        !.status = IF written THEN "succeeded" ELSE "failed"]
    /\ UNCHANGED <<engine_vars, search, solver, chem, guide, hrro, caller,
                   modules, runs>>

\* RQ path: Redis answers and a worker listens, the job is put on the queue
\* and the request returns; or something raised and the request falls back
enqueue_report_rq ==
    /\ report.phase = "created"
    /\ ~(report.env.e2e /\ report.env.fast_report)
    /\ report.env.REDIS_AVAILABLE /\ report.env.use_rq
    /\ ~force_inproc(report.env)
    /\ \E usable \in BOOLEAN :
          IF usable
          THEN report' = [report EXCEPT !.phase = "returned",
                                        !.queue = "rq:reports",
                                        !.task = "rq_queued"]
          ELSE report' = [report EXCEPT !.phase = "fallback"]
    /\ UNCHANGED <<engine_vars, search, solver, chem, guide, hrro, caller,
                   modules, runs>>

\* in-process path: the row is set running, the background task is added
\* and the request returns
enqueue_report_inproc ==
    /\ \/ report.phase = "fallback"
       \/ /\ report.phase = "created"
          /\ ~(report.env.e2e /\ report.env.fast_report)
          /\ ~(report.env.REDIS_AVAILABLE /\ report.env.use_rq
               /\ ~force_inproc(report.env))
    /\ report' = [report EXCEPT !.phase = "returned", !.queue = "inproc",
                                !.status = "running",
                                !.task = "bg_pending"]
    /\ UNCHANGED <<engine_vars, search, solver, chem, guide, hrro, caller,
                   modules, runs>>

\* get_report_status, the client's first query once enqueue has returned
get_report_status ==
    /\ report.phase = "returned"
    /\ report.observed = "none"
    /\ report' = [report EXCEPT !.observed = _api_status(report.status)]
    /\ UNCHANGED <<engine_vars, search, solver, chem, guide, hrro, caller,
                   modules, runs>>

\* what one runner produces before it finalizes the job: the minimal PDF on
\* the E2E fast path, task_generate_report otherwise
generation_outcomes(fast) ==
    IF fast THEN {"found", "raised"}
    ELSE {task_generate_report(import_ok, found) :
             import_ok \in BOOLEAN, found \in BOOLEAN}

\* _run_report_inproc_background up to its call of _finalize_job
inproc_background_generate ==
    /\ report.task = "bg_pending"
    /\ \E outcome \in generation_outcomes(report.env.e2e
                                          /\ report.env.fast_report) :
          report' = [report EXCEPT !.task = "bg_generated",
                                   !.outcome = outcome]
    /\ UNCHANGED <<engine_vars, search, solver, chem, guide, hrro, caller,
                   modules, runs>>

\* _run_report_inproc_background finalizes the job and ends
inproc_background_finalize ==
    /\ report.task = "bg_generated"
    /\ report' = [report EXCEPT
                     !.task = "bg_done",
                     !.status = _finalize_job(report.status,
                                    finalize_status(report.outcome))]
    /\ UNCHANGED <<engine_vars, search, solver, chem, guide, hrro, caller,
                   modules, runs>>

\* the worker takes the job from the queue: task_generate_report_rq starts
\* with _mark_running
rq_worker_mark_running ==
    /\ report.task = "rq_queued"
    /\ report' = [report EXCEPT !.task = "rq_running",
                                !.attempts = report.attempts + 1,
                                !.status = _mark_running(report.status)]
    /\ UNCHANGED <<engine_vars, search, solver, chem, guide, hrro, caller,
                   modules, runs>>

\* task_generate_report_rq up to its call of _finalize_job
rq_worker_generate ==
    /\ report.task = "rq_running"
    /\ \E outcome \in generation_outcomes(report.env.e2e
                                          /\ report.env.worker_fast_report) :
          report' = [report EXCEPT !.task = "rq_generated",
                                   !.outcome = outcome]
    /\ UNCHANGED <<engine_vars, search, solver, chem, guide, hrro, caller,
                   modules, runs>>

\* task_generate_report_rq finalizes the job; when it raised, RQ puts the
\* job back on the queue while retries are left
rq_worker_finalize ==
    /\ report.task = "rq_generated"
    /\ report' = [report EXCEPT
                     !.task = IF report.outcome = "raised"
                                 /\ report.attempts <= RetryMax
                              THEN "rq_queued" ELSE "rq_done",
                     !.status = _finalize_job(report.status,
                                    finalize_status(report.outcome))]
    /\ UNCHANGED <<engine_vars, search, solver, chem, guide, hrro, caller,
                   modules, runs>>

\* the steps of the request handler, of the background task and of the
\* worker
enqueue_report ==
    \/ enqueue_report_fast_start
    \/ enqueue_report_fast_finish
    \/ enqueue_report_rq
    \/ enqueue_report_inproc

_run_report_inproc_background ==
    inproc_background_generate \/ inproc_background_finalize

task_generate_report_rq ==
    rq_worker_mark_running \/ rq_worker_generate \/ rq_worker_finalize

NextReport ==
    \/ enqueue_report_create
    \/ enqueue_report_fast_start
    \/ enqueue_report_fast_finish
    \/ enqueue_report_rq
    \/ enqueue_report_inproc
    \/ get_report_status
    \/ inproc_background_generate
    \/ inproc_background_finalize
    \/ rq_worker_mark_running
    \/ rq_worker_generate
    \/ rq_worker_finalize

SpecReport == Init /\ [][NextReport]_vars

\* a request handler that has started runs to its end, Starlette runs the
\* background task once the response is sent, and the request put the job
\* on the queue only after it saw a worker listening to it
FairSpecReport ==
    /\ SpecReport
    /\ WF_vars(enqueue_report)
    /\ WF_vars(_run_report_inproc_background)
    /\ WF_vars(task_generate_report_rq)

(***************************************************************************)
(* The request a caller hands to run, as objects: the request "R0" refers  *)
(* to its feed "F0" and to its stages "S1", "S2"; inject_global_chemistry_ *)
(* into_stages may make the request "R1" and the stages "T1", "T2".  The   *)
(* TDS and the ions of the feed are in 1/1000 mg/L; a chemistry block that *)
(* is None is "none".                                                      *)
(***************************************************************************)
\* feed.ions is None
NoIons == [Na |-> None, Cl |-> None, Ca |-> None, SO4 |-> None]

StageRefs == <<"S1", "S2">>

StageCopyRefs == <<"T1", "T2">>

\* the objects of a request with the given feed, global chemistry and
\* chemistry of each stage
CallerObjects(tds_mgL, ions, chemistry, stage_chemistry) ==
    [o \in {"R0", "F0"} \cup {StageRefs[i] : i \in DOMAIN stage_chemistry} |->
        IF o = "R0"
        THEN [feed |-> "F0",
              stages |-> [i \in DOMAIN stage_chemistry |-> StageRefs[i]],
              chemistry |-> chemistry]
        ELSE IF o = "F0" THEN [tds_mgL |-> tds_mgL, ions |-> ions]
        ELSE [chemistry |->
                 stage_chemistry[CHOOSE i \in DOMAIN stage_chemistry :
                                     StageRefs[i] = o]]]

\* the request as its caller reads it: the feed and the stages reached from
\* the object the caller holds
caller_request(heap) ==
    [feed |-> heap["F0"], chemistry |-> heap["R0"].chemistry,
     stages |-> [i \in DOMAIN heap["R0"].stages |->
                    heap[heap["R0"].stages[i]]]]

\* model_copy of pydantic copies the fields of the object, not the objects
\* they refer to: the copy of the request refers to the caller's feed
model_copy_feed(request_obj) == request_obj.feed

\* inject_global_chemistry_into_stages: the request itself when it has no
\* global chemistry or no stage; else a copy of the request whose stages
\* without chemistry are copies that carry the global block
inject_global_chemistry_into_stages(heap, r) ==
    LET payload == heap[r].chemistry
        stages == heap[r].stages
        copied == {i \in DOMAIN stages : heap[stages[i]].chemistry = "none"}
        new_stages == [i \in DOMAIN stages |->
                          IF i \in copied THEN StageCopyRefs[i]
                          ELSE stages[i]]
    IN IF payload = "none" \/ stages = <<>>
       THEN [heap |-> heap, request |-> r]
       ELSE [heap |->
                [o \in DOMAIN heap \cup {"R1"}
                         \cup {StageCopyRefs[i] : i \in copied} |->
                    IF o \in DOMAIN heap THEN heap[o]
                    ELSE IF o = "R1"
                    THEN [feed |-> model_copy_feed(heap[r]),
                          stages |-> new_stages, chemistry |-> payload]
                    ELSE [chemistry |-> payload]],
             request |-> "R1"]

\* _build_base_chem_profile: the profile of a feed with its ions
_build_base_chem_profile(feed) ==
    ChemistryProfile(feed.tds_mgL,
        [na_mgL |-> feed.ions.Na, cl_mgL |-> feed.ions.Cl,
         ca_mgL |-> feed.ions.Ca, so4_mgL |-> feed.ions.SO4])

\* run up to its stage loop: the objects after the chemistry injection and
\* the ion balance correction, which is written to request.feed.  Nothing
\* after it assigns to the request, its feed or its stages.
run_prologue(heap) ==
    LET injected == inject_global_chemistry_into_stages(heap, "R0")
        h == injected.heap
        f == h[injected.request].feed
        balanced_prof == apply_balance_makeup(_build_base_chem_profile(h[f]))
    IN IF h[injected.request].stages = <<>> \/ h[f].ions = NoIons THEN h
       ELSE [h EXCEPT ![f].tds_mgL = balanced_prof.tds_mgL,
                      ![f].ions.Na = balanced_prof.ions.na_mgL,
                      ![f].ions.Cl = balanced_prof.ions.cl_mgL]

\* feeds without ions, with balanced ions and with unbalanced ions; with
\* and without a global chemistry block; up to two stages with and without
\* a chemistry block of their own
CallerRequests ==
    {CallerObjects(tds, ions, chemistry, stage_chemistry) :
        tds \in {500000, 1000000},
        ions \in {NoIons} \cup
                 [Na : {0, 100000}, Cl : {None, 0, 154210},
                  Ca : {0, 40000}, SO4 : {0, 96061}],
        chemistry \in {"none", "global"},
        stage_chemistry \in UNION {[1..n -> {"none", "own"}] : n \in 0..2}}

\* a caller builds a request and calls run with it
caller_call ==
    /\ caller.phase = "idle"
    /\ \E heap \in CallerRequests :
          caller' = [phase |-> "called", given |-> caller_request(heap),
                     heap |-> heap]
    /\ UNCHANGED <<engine_vars, search, solver, chem, guide, hrro, report,
                   modules, runs>>

\* run returns; the caller still holds the request
caller_return ==
    /\ caller.phase = "called"
    /\ caller' = [caller EXCEPT !.phase = "returned",
                                !.heap = run_prologue(caller.heap)]
    /\ UNCHANGED <<engine_vars, search, solver, chem, guide, hrro, report,
                   modules, runs>>

NextCaller == caller_call \/ caller_return

SpecCaller == Init /\ [][NextCaller]_vars

(***************************************************************************)
(* Properties of the stage metrics.                                        *)
(***************************************************************************)
\* C1: every stage whose feed flow Qf is positive reports flows with
\* |Qf - (Qp + Qc)| / Qf < 1e-3, whatever the module type
C1_FlowConservation ==
    \A i \in 1..Len(stage_metrics) :
        stage_metrics[i].Qf > 0 =>
            Abs(stage_metrics[i].Qf
                  - (stage_metrics[i].Qp + stage_metrics[i].Qc)) * 1000
              < stage_metrics[i].Qf

\* C2: every stage with Qf > 0 and Cf > 0 reports values with
\* |Qf Cf - (Qp Cp + Qc Cc)| / (Qf Cf) < 1e-3, whatever the module type and
\* the engine mode
C2_SaltConservation ==
    \A i \in 1..Len(stage_metrics) :
        LET m == stage_metrics[i] IN
        (m.Qf > 0 /\ m.Cf > 0) =>
            Abs(m.Qf * m.Cf - (m.Qp * m.Cp + m.Qc * m.Cc))
              <= (m.Qf * m.Cf - 1) \div 1000

\* C3: every stage with Qf > 0 reports a recovery fraction Qp / Qf strictly
\* below 1 and a concentrate flow Qc strictly above 0
C3_RecoveryBelowOne ==
    \A i \in 1..Len(stage_metrics) :
        stage_metrics[i].Qf > 0 =>
            /\ stage_metrics[i].Qp < stage_metrics[i].Qf
            /\ stage_metrics[i].Qc > 0

(***************************************************************************)
(* Properties of the stage loop and of the result.                         *)
(***************************************************************************)
\* the stream of stage k that the chaining rule names: the permeate of a
\* UF or MF stage, the concentrate of an RO, NF or HRRO stage
ChainedStream(k) ==
    IF stage_types[k] \in {"UF", "MF"} THEN resolved_streams[k].permeate
    ELSE resolved_streams[k].concentrate

\* C4: stages run in request order (stage i of the results is stage i of the
\* request, computed on the feed handed to it), and the feed handed to stage
\* k + 1 has the flow and the TDS of stage k's permeate when stage k is UF or
\* MF, of stage k's concentrate when it is RO, NF or HRRO
C4_RequestOrderAndChaining ==
    /\ Len(stage_metrics) = idx
    /\ Len(stage_types) = idx
    /\ Len(fed) = idx
    /\ idx <= Len(request.stages)
    /\ \A i \in 1..idx :
          /\ stage_types[i] = request.stages[i].module_type
          /\ stage_metrics[i].stage = i
          /\ stage_metrics[i].module_type = request.stages[i].module_type
    /\ (idx >= 1 /\ pc = "loop") =>
          stage_metrics[idx] =
             [compute(request.stages[idx].module_type, request.stages[idx],
                      fed[idx]) EXCEPT !.stage = idx]
    /\ idx >= 1 => fed[1] = request.feed
    /\ \A k \in 1..idx :
          LET nxt == IF k < idx THEN fed[k + 1] ELSE current_feed IN
          /\ nxt.flow_m3h = ChainedStream(k).flow_m3h
          /\ nxt.tds_mgL = ChainedStream(k).tds_mgL

\* a UF stage followed by an RO stage: the RO stage was fed the UF permeate,
\* which is not the UF concentrate, and the feed after it is its concentrate,
\* which is not its permeate
C4_Witness ==
    /\ idx = 2
    /\ stage_types = <<"UF", "RO">>
    /\ fed[2].flow_m3h = stage_metrics[1].Qp
    /\ stage_metrics[1].Qp # stage_metrics[1].Qc
    /\ current_feed.flow_m3h = stage_metrics[2].Qc
    /\ current_feed.tds_mgL = stage_metrics[2].Cc
    /\ stage_metrics[2].Qc # stage_metrics[2].Qp
    /\ stage_metrics[2].Cc # stage_metrics[2].Cp

\* a warning of the result that is a guideline violation of one of the stages
IsStageGuidelineWarning(w) ==
    \E i \in 1..Len(stage_metrics) :
        /\ w.stage = i
        /\ w.module_type = stage_metrics[i].module_type
        /\ w.key \in stage_metrics[i].violations

\* C5: a run whose mass or salt balance is flagged as not balanced still
\* returns a result, and the warning list of that result holds a warning for
\* the imbalance (a warning that is not a stage's guideline violation)
C5_ImbalanceWarned ==
    (pc = "done" /\ ~result.is_balanced) =>
        /\ result.returned
        /\ \E w \in result.warnings : ~IsStageGuidelineWarning(w)

\* C7: the feed handed to stage k + 1 differs from the feed of stage k only
\* in flow and TDS; temperature, pH, water type and sub-type, SDI, turbidity
\* and TOC are carried forward unchanged
C7_OnlyFlowAndTdsChange ==
    \A k \in 1..(Len(fed) - 1) :
        [fed[k + 1] EXCEPT !.flow_m3h = fed[k].flow_m3h,
                           !.tds_mgL = fed[k].tds_mgL] = fed[k]

\* the sum of w over the indices in S
RECURSIVE SumOver(_, _)
SumOver(S, w) ==
    IF S = {} THEN 0
    ELSE LET i == CHOOSE x \in S : TRUE IN w[i] + SumOver(S \ {i}, w)

\* the average of v over the indices in S weighted by q, 0 without weight
WeightedAverage(S, q, v) ==
    IF SumOver(S, q) > 0
    THEN SumOver(S, [i \in DOMAIN q |-> q[i] * v[i]]) \div SumOver(S, q)
    ELSE 0

\* the stages of the finished run that are RO, NF or HRRO
PressureStages ==
    {i \in 1..Len(stage_types) : stage_types[i] \in {"RO", "NF", "HRRO"}}

\* the flow and the TDS of each stage's permeate stream, and its reported
\* flux and NDP with an absent value read as 0
PermeateFlows ==
    [i \in 1..Len(stage_types) |-> resolved_streams[i].permeate.flow_m3h]

PermeateTds ==
    [i \in 1..Len(stage_types) |-> resolved_streams[i].permeate.tds_mgL]

StageFlux ==
    [i \in 1..Len(stage_types) |-> _f(stage_metrics[i].flux_lmh, 0)]

StageNdp ==
    [i \in 1..Len(stage_types) |-> _f(stage_metrics[i].ndp_bar, 0)]

\* C6 as stated: with a pressure stage in the train, the system product
\* flow, TDS, flux and NDP are each the flow-weighted average over the
\* permeate streams of the pressure stages
C6_AllFlowWeighted ==
    (pc = "done" /\ PressureStages # {}) =>
        /\ result.prod_flow
             = WeightedAverage(PressureStages, PermeateFlows, PermeateFlows)
        /\ result.prod_tds
             = WeightedAverage(PressureStages, PermeateFlows, PermeateTds)
        /\ result.avg_flux
             = WeightedAverage(PressureStages, PermeateFlows, StageFlux)
        /\ result.avg_ndp
             = WeightedAverage(PressureStages, PermeateFlows, StageNdp)

\* C6, amended: with a pressure stage in the train, the system product flow
\* is the sum of the pressure stages' permeate flows, and the system TDS,
\* flux and NDP are the flow-weighted averages over the pressure stages that
\* report the quantity; UF and MF stages contribute to none of the four
C6_SumAndFlowWeighted ==
    (pc = "done" /\ PressureStages # {}) =>
        /\ result.prod_flow = SumOver(PressureStages, PermeateFlows)
        /\ result.prod_tds
             = WeightedAverage(PressureStages, PermeateFlows, PermeateTds)
        /\ result.avg_flux
             = WeightedAverage({i \in PressureStages :
                                  stage_metrics[i].flux_lmh # None},
                               PermeateFlows, StageFlux)
        /\ result.avg_ndp
             = WeightedAverage({i \in PressureStages :
                                  stage_metrics[i].ndp_bar # None},
                               PermeateFlows, StageNdp)

\* a finished UF, RO train and a finished RO, HRRO train: a UF permeate
\* that is left out, and two pressure stages of which one reports no NDP
C6_Witness ==
    /\ pc = "done"
    /\ \/ /\ stage_types = <<"UF", "RO">>
          /\ stage_metrics[1].Qp > 0
          /\ result.prod_flow = stage_metrics[2].Qp
          /\ result.prod_flow > 0
       \/ /\ stage_types = <<"RO", "HRRO">>
          /\ stage_metrics[1].Qp > 0
          /\ stage_metrics[2].Qp > 0
          /\ stage_metrics[2].ndp_bar = None
          /\ result.avg_ndp = stage_metrics[1].ndp_bar
          /\ result.prod_flow = stage_metrics[1].Qp + stage_metrics[2].Qp

\* C8: an HRRO stage reports the baseline flows Qp = q_raw * recovery / 100
\* and Qc = q_raw - Qp in every engine mode, except in physics mode with an
\* explicit target flux, where Qp = target flux * installed area / 1000,
\* capped at 0.999 Qf, and Qc = Qf - Qp >= 0
C8_HrroFlows ==
    \A i \in 1..Len(stage_metrics) :
        stage_types[i] = "HRRO" =>
            LET c == request.stages[i]
                m == stage_metrics[i]
                q_raw == fed[i].flow_m3h
                recovery == IF c.ccro_recovery_pct # None
                            THEN c.ccro_recovery_pct ELSE 85
                area == c.vessel_count * c.elements_per_vessel
                          * c.membrane_area_m2_per_element
            IN
            IF c.hrro_engine = "excel_physics" /\ c.flux_lmh # None
            THEN /\ m.Qp = Min((c.flux_lmh * area) \div 1000,
                               (m.Qf * 999) \div 1000)
                 /\ m.Qc = m.Qf - m.Qp
                 /\ m.Qc >= 0
            ELSE /\ m.Qp = (q_raw * recovery) \div 100
                 /\ m.Qc = q_raw - m.Qp

\* an excel-only stage that was given a flux and kept the baseline flows,
\* followed by a physics stage whose permeate flow is the target flux times
\* the area and not the baseline flow
C8_Witness ==
    /\ Len(stage_metrics) = 2
    /\ request.stages[1] = HRROexcelFlux
    /\ request.stages[2] = HRROphysicsFlux
    /\ stage_metrics[1].Qf > 0
    /\ stage_metrics[1].Qp = (stage_metrics[1].Qf * 85) \div 100
    /\ stage_metrics[1].Qp # (20000 * 222) \div 1000
    /\ stage_metrics[2].Qf > 0
    /\ stage_metrics[2].Qp # (stage_metrics[2].Qf * 85) \div 100
    /\ stage_metrics[2].Qp
         = Min((20000 * 222) \div 1000, (stage_metrics[2].Qf * 999) \div 1000)

\* the effective permeability and the installed area an RO or NF stage
\* computes with
StagePermeability(i) ==
    IF stage_types[i] = "RO" THEN RO_inputs(request.stages[i], fed[i]).A
    ELSE NF_inputs(request.stages[i], fed[i]).A_lmh_bar

StageArea(i) ==
    IF stage_types[i] = "RO"
    THEN RO_inputs(request.stages[i], fed[i]).total_area
    ELSE NF_inputs(request.stages[i], fed[i]).total_area

\* C10: every RO and NF stage, whether or not the permeate-flow cap binds,
\* reports a flux equal to the effective permeability times the reported
\* NDP, a Qp equal to the reported flux times the area / 1000, and a Cc that
\* closes the salt balance with the reported Qp and Cp (each to within one
\* unit of the last digit)
C10_ConsistentOutputs ==
    \A i \in 1..Len(stage_metrics) :
        (stage_types[i] \in {"RO", "NF"} /\ stage_metrics[i].Qf > 0) =>
            LET m == stage_metrics[i] IN
            /\ Abs(m.flux_lmh - MulDiv(m.ndp_bar, StagePermeability(i), 1000))
                 <= 1
            /\ Abs(m.Qp - MulDiv(m.flux_lmh, StageArea(i), 1000)) <= 1
            /\ m.Qc > 0 =>
                 Abs(m.Cc - SaltBalance(m.Qf, m.Cf, m.Qp, m.Cp, m.Qc)) <= 1


\* C9: the pressure the search returns lies in [0, pressure limit], and its
\* average flux is within the tolerance of the target or its error is the
\* smallest among all pressures the search evaluated
C9_SearchResult ==
    search.phase = "returned" =>
        /\ 0 <= search.s.p
        /\ search.s.p <= search.p_limit
        /\ \/ search_error(search.kw, search.s.target, search.s.p)
                <= search.tol_lmh
           \/ \A e \in search.s.evaluated :
                 search_error(search.kw, search.s.target, search.s.p) <= e[2]


\* C11: every RO and NF stage whose feed TDS Cf is positive reports a
\* permeate concentration Cp with 0 <= Cp <= Cf
C11_PermeateWithinFeed ==
    \A i \in 1..Len(stage_metrics) :
        (stage_metrics[i].module_type \in {"RO", "NF"}
         /\ stage_metrics[i].Cf > 0) =>
            (0 <= stage_metrics[i].Cp
             /\ stage_metrics[i].Cp <= stage_metrics[i].Cf)

(***************************************************************************)
(* Properties of the stage solvers.                                        *)
(***************************************************************************)
\* C12: in every iteration of the RO and of the NF solver the
\* concentration-polarisation factor applied to the bulk concentration lies
\* in [1, 5]
C12_PolarisationFactorClamped ==
    (solver.phase # "idle" /\ solver.loop \in {"ro", "nf"}
     /\ solver.iter > 0) =>
        (1000 <= solver.cp /\ solver.cp <= 5000)

\* C13: for a fixed feed, geometry and membrane, if p1 < p2 and the
\* permeate-flow cap is not active at p2, the converged flux of the RO stage
\* at p2 is strictly greater than its converged flux at p1
C13_FluxIncreasesWithPressure ==
    (solver.phase = "returned" /\ solver.loop = "ro" /\ solver.bound > 0
     /\ solver.out.converged /\ ~solver.out.capped) =>
        \A p1 \in SolverPressures :
            (p1 < solver.k.p_in_bar
             /\ RO_loop_converged([solver.config EXCEPT !.pressure_bar = p1],
                                  solver.feed)) =>
                ROModule_compute([solver.config EXCEPT !.pressure_bar = p1],
                                 solver.feed).flux_lmh
                  < solver.out.metric.flux_lmh

\* C14: for every RO and NF stage the stage energy equals feed flow times
\* applied inlet pressure / 36 / pump efficiency, and the specific energy is
\* that energy divided by the permeate flow whenever the permeate flow is
\* positive
C14_StageEnergy ==
    (solver.phase = "returned" /\ solver.loop \in {"ro", "nf"}) =>
        /\ solver.out.power_kw
             = MulDiv(solver.k.Qf, solver.k.p_in_bar,
                      36 * _f(solver.config.pump_eff, 800))
        /\ solver.out.metric.Qp > 0 =>
             solver.out.sec_kwhm3
               = MulDiv(solver.out.power_kw, 1000, solver.out.metric.Qp)

\* the explicit maximum of each loop, as its function fixes it before the
\* loop starts
LoopMaximum(f) ==
    CASE f.loop = "ro" -> RO_max_iter
      [] f.loop = "nf" -> NF_max_iter
      [] f.loop = "local_flux" -> Max(1, f.k.mt.cp_max_iter)
      [] f.loop = "bisection" -> Max(1, f.k.max_iter)
      [] f.loop = "axial" -> Max(1, f.k.kw.nseg)
      [] f.loop = "history" -> HISTORY_MAX_POINTS

\* C15: every loop of a stage computation (RO fixed point, NF fixed point,
\* per-segment polarisation loop, inlet-pressure bisection, axial segment
\* loop, batch-history loop) makes at most as many trips as the maximum
\* fixed before it starts, that number does not change while the loop runs,
\* and the function returns, whether or not the loop converged
C15_LoopsTerminate ==
    /\ [](solver.phase # "idle" =>
            (solver.iter <= solver.bound
             /\ solver.bound <= LoopMaximum(solver)))
    /\ [][solver.phase = "loop" => solver'.bound = solver.bound]_vars
    /\ (solver.phase = "loop") ~> (solver.phase = "returned")

\* an RO stage has returned after the last trip of a loop that did not
\* converge
C15_Witness ==
    /\ solver.phase = "returned"
    /\ solver.loop = "ro"
    /\ solver.iter = solver.bound
    /\ solver.bound = RO_max_iter
    /\ ~solver.out.converged

C19_ScaleToOwnTds ==
    (chem.op = "scale" /\ chem.out.tds_mgL = chem.profile.tds_mgL) =>
        chem.out = chem.profile

\* C17: the balance correction applied twice leaves the TDS its first
\* application gave, and a profile that is already balanced is returned
\* with its TDS and its ions untouched
C17_BalanceIdempotent ==
    /\ (chem.op = "balance" /\ chem.calls = 2) =>
           chem.out.tds_mgL = chem.arg.tds_mgL
    /\ (chem.op = "balance"
        /\ Abs(calculate_ion_balance(chem.arg).cations_meq
               - calculate_ion_balance(chem.arg).anions_meq) < 10) =>
           chem.out = chem.arg

\* C18: on a profile whose cation and anion equivalents differ by the
\* tolerance or more, the correction adds the missing equivalents as
\* chloride when the cations exceed the anions and as sodium otherwise,
\* raises the TDS by the added mass, changes no other ion, and returns a
\* profile whose two sums are equal within the tolerance
C18_BalanceMakeup ==
    LET b == calculate_ion_balance(chem.arg)
        diff == Abs(b.cations_meq - b.anions_meq)
        ion == IF b.cations_meq > b.anions_meq THEN "cl_mgL" ELSE "na_mgL"
        added == makeup_mgL(diff, ION_TABLE[ion].mw)
        given == IF chem.arg.ions[ion] = None THEN 0 ELSE chem.arg.ions[ion]
        after == calculate_ion_balance(chem.out)
    IN (chem.op = "balance" /\ diff >= 10) =>
          /\ chem.out.ions[ion] = given + added
          /\ chem.out.tds_mgL = chem.arg.tds_mgL + added
          /\ \A s \in DOMAIN chem.arg.ions \ {ion} :
                chem.out.ions[s] = chem.arg.ions[s]
          /\ Abs(after.cations_meq - after.anions_meq) < 10

(***************************************************************************)
(* Properties of the guideline check.                                      *)
(***************************************************************************)
\* C20: for a guideline profile and an element size, the violation list
\* holds a record with a given key if and only if the value of that check
\* was supplied, the profile defines that limit for the element size, and
\* the value lies outside the limit; a check that passes, or has no value
\* or no limit, leaves no record
C20_ViolationIffOutside ==
    LET g == GUIDELINES(IF guide.profile \in GuidelineProfileNames
                        THEN guide.profile ELSE "municipal Supply",
                        guide.inch)
        c == guide.checks
        above(v, lim) == v # None /\ lim # None /\ v > lim
    IN guide.phase = "returned" =>
          /\ "avg_flux_range" \in guide.violations <=>
                (c.avg_flux_lmh # None /\ g.avg_flux_lo # None
                 /\ (c.avg_flux_lmh < g.avg_flux_lo
                     \/ c.avg_flux_lmh > g.avg_flux_hi))
          /\ "lead_flux_max" \in guide.violations <=>
                above(c.lead_flux_lmh, g.lead_flux_max_lmh)
          /\ "conc_flow_min" \in guide.violations <=>
                (c.conc_flow_m3h_per_vessel # None
                 /\ g.conc_flow_min_m3h_per_vessel # None
                 /\ c.conc_flow_m3h_per_vessel
                      < g.conc_flow_min_m3h_per_vessel)
          /\ "feed_flow_max" \in guide.violations <=>
                above(c.feed_flow_m3h_per_vessel,
                      g.feed_flow_max_m3h_per_vessel)
          /\ "dp_max" \in guide.violations <=>
                above(c.dp_bar_per_vessel, g.dp_max_bar)
          /\ "element_recovery_max" \in guide.violations <=>
                above(c.element_recovery_pct, g.element_recovery_max_pct)
          /\ "beta_max" \in guide.violations <=>
                above(c.beta_max, g.beta_max)
          /\ "flux_decline_ratio_max" \in guide.violations <=>
                above(c.flux_decline_ratio_pct, g.flux_decline_ratio_max_pct)
          /\ guide.violations \subseteq
                {"avg_flux_range", "lead_flux_max", "conc_flow_min",
                 "feed_flow_max", "dp_max", "element_recovery_max",
                 "beta_max", "flux_decline_ratio_max"}

\* a call for 4 inch elements of the beach-well profile has returned: the
\* feed flow per vessel is over its maximum and is recorded, the concentrate
\* flow is under every minimum of the table but this profile defines none,
\* the average flux is supplied but has no 4 inch limit, and the pressure
\* drop was not supplied
C20_Witness ==
    /\ guide.phase = "returned"
    /\ guide.profile = "Seawater Beach Wells"
    /\ guide.inch = 4
    /\ guide.checks.feed_flow_m3h_per_vessel = 20000
    /\ guide.checks.conc_flow_m3h_per_vessel = 300
    /\ guide.checks.avg_flux_lmh = 50000
    /\ guide.checks.dp_bar_per_vessel = None
    /\ guide.violations = {"feed_flow_max"}

(***************************************************************************)
(* Properties of the HRRO stage.                                           *)
(***************************************************************************)
\* C21: in either engine mode the recovery an HRRO stage reports is at
\* most 100 percent and at most 2 percentage points over the stop recovery
\* and over the target recovery the stage was configured with
C21_RecoveryWithinStop ==
    hrro.phase = "returned" =>
        /\ hrro.recovery_pct <= 10000
        /\ \A r \in {hrro.config.stop_recovery_pct,
                     hrro.config.recovery_target_pct} \ {None} :
              hrro.recovery_pct <= r * 100 + 200

\* C22: in physics mode the chemistry payload of the stage holds
\* design_excel.physics, whose flow_mode is "excel_baseline" without a
\* target flux and "flux_override" with one, with the permeate and
\* concentrate flows the stage reports and the flag of the permeate clamp
C22_PhysicsPayload ==
    (hrro.phase = "returned" /\ hrro.config.hrro_engine = "excel_physics") =>
        /\ "physics" \in DOMAIN hrro.design_excel
        /\ hrro.design_excel.physics.flow_mode
             = (IF hrro.config.flux_lmh = None THEN "excel_baseline"
                ELSE "flux_override")
        /\ hrro.design_excel.physics.qp_total_m3h = hrro.metric.Qp
        /\ hrro.design_excel.physics.qc_total_m3h = hrro.metric.Qc
        /\ hrro.design_excel.physics.qp_total_clamped \in BOOLEAN

(***************************************************************************)
(* Properties of a run and of its result.                                  *)
(***************************************************************************)
\* C23 as claimed: a StageMetric is not modified after the module solver
\* that made it has returned: every entry of the stage list of the run
\* equals, field for field, what the solver returned for that stage
C23_MetricsReadOnly ==
    \A i \in DOMAIN stage_metrics :
        stage_metrics[i] = compute(stage_types[i], request.stages[i], fed[i])

\* C23: the orchestrator sets the stage number of the metric a solver
\* returned to the position of the stage in the run and changes no other
\* field of it, and an entry of the stage list never changes once it is in
\* the list
C23_OnlyStageNumberSet ==
    [][/\ \A i \in DOMAIN stage_metrics :
             i \in DOMAIN stage_metrics' =>
                 stage_metrics'[i] = stage_metrics[i]
       /\ Len(stage_metrics') = Len(stage_metrics) + 1 =>
             LET n == Len(stage_metrics')
             IN stage_metrics'[n] =
                   [compute(stage_types'[n], request.stages[n], current_feed)
                       EXCEPT !.stage = n]]_vars

\* the run is over: an HRRO stage ran second after an RO stage, its solver
\* numbered its metric 1 and the stage list holds it as number 2, with the
\* guideline violations the solver found
C23_Witness ==
    /\ pc = "done"
    /\ stage_types = <<"RO", "HRRO">>
    /\ compute("HRRO", request.stages[2], fed[2]).stage = 1
    /\ stage_metrics[2].stage = 2
    /\ stage_metrics[2].violations # {}
    /\ stage_metrics[1].stage = 1

(***************************************************************************)
(* Properties of the report jobs.                                          *)
(***************************************************************************)
\* C24: after an enqueue request has returned successfully, the status the
\* client sees for the new job on its next status query is "queued"
C24_QueuedAfterEnqueue ==
    report.observed # "none" => report.observed = "queued"

C27_ReportedFeedIsFeedGiven ==
    hrro.phase = "returned" =>
        /\ hrro.metric.Qf = hrro.feed.flow_m3h
        /\ hrro.metric.Cf = hrro.feed.tds_mgL

\* C28: when every stage of a run reports Qf = Qp + Qc, the system feed flow
\* equals the system product flow plus the system brine flow within 1
\* percent, so the flow closure does not flag the run
C28_FlowClosure ==
    (/\ result.returned
     /\ Len(stage_metrics) > 0
     /\ \A i \in DOMAIN stage_metrics :
           stage_metrics[i].Qf = stage_metrics[i].Qp + stage_metrics[i].Qc)
    => (request.feed.flow_m3h > 0 =>
            Abs(request.feed.flow_m3h
                - (result.prod_flow + result.brine_flow)) * 100
                < request.feed.flow_m3h)

\* C29: the system product flow of a run never exceeds its system feed
\* flow, and the system recovery lies between 0 and 100 percent
C29_ProductWithinFeed ==
    result.returned =>
        /\ result.prod_flow <= request.feed.flow_m3h
        /\ result.recovery_pct >= 0
        /\ result.recovery_pct <= 100000

(***************************************************************************)
(* Properties of the request a caller hands to run.                        *)
(***************************************************************************)
\* C30: run does not modify the request of its caller: the feed with its
\* TDS and ions and the stages read the same after the call as before
C30_RequestUnmodified ==
    caller.phase = "returned" => caller_request(caller.heap) = caller.given

=============================================================================
